---- MODULE Spec2Model ----
(***************************************************************************)
(* A model of the todo application's back end: the skills (id_resolver,    *)
(* filter_mapper, task_parser, confirmation_generator, error_handler,      *)
(* context_builder), the agents built on them, the task tools of           *)
(* mcp_server, the Orchestrator that routes a chat message, the chat       *)
(* endpoint of routes/chat.py and the REST routes of routes/tasks.py over  *)
(* the same tasks table; and of the console application's in-memory        *)
(* TaskStorage (src/storage.py, src/models.py).                            *)
(*                                                                         *)
(* Python strings are TLA+ strings; TLC evaluates Len, SubSeq and \o on    *)
(* them, so the text functions below work on the characters the code works *)
(* on.  Regular expressions are values (Lit, Cat, Alt, ...) matched by a   *)
(* backtracking matcher that lists the matches in the order Python's re    *)
(* tries them.                                                             *)
(***************************************************************************)
EXTENDS Integers, Sequences, FiniteSets, TLC

VARIABLES
    \* a call of IDResolverSkill.execute(user_input, tasks): its arguments,
    \* its ResolvedTask and where the call stands
    user_input, tasks, resolved, rpc,
    \* a call of FilterMapperSkill.execute(filter_input) and its FilterParams
    filter_input, filter_params, fpc,
    \* the tasks table with its id sequence and the clock
    store,
    \* a call of Orchestrator(user_id).process(user_message): where it stands,
    \* the position of the loop over the agents, the agents executed so far
    \* with their results, whether _process_with_openai ran, and the result
    user_id, user_message, pc, agent_idx, executed, fallback, result,
    \* the number of messages processed
    handled,
    \* a call of TaskParserSkill.execute(parser_input) and its ParsedTask
    parser_input, parsed_task, ppc,
    \* a call of ConfirmationGeneratorSkill.execute with its arguments, and
    \* the message it returns
    confirm_call, confirmation, cpc,
    \* a call of ErrorHandlerSkill.execute with its arguments, and its
    \* ErrorResponse
    error_call, handled_error, epc,
    \* a call of ContextBuilderSkill.execute with its arguments, and its
    \* BuiltContext
    context_call, built, bpc,
    \* the tasks table behind the REST routes and the task tools, the last
    \* request served with its response, and the number of requests served
    db, api_call, api_reply, served,
    \* the messages table of a conversation, the history the chat endpoint
    \* loaded from it for the request it is serving, and the message list
    \* the request handed to the chat completions API (<<>> when it did not)
    chat_messages, chat_history, llm_messages,
    \* the list of tasks of the console application's TaskStorage, the number
    \* of ids it has issued, the last call with the exception it raised
    \* (None when it returned), and the number of calls
    console_tasks, console_made, console_call, console_raised, console_calls

resolverVars == <<user_input, tasks, resolved, rpc>>
filterVars == <<filter_input, filter_params, fpc>>
routerVars == <<store, user_id, user_message, pc, agent_idx, executed, fallback, result, handled>>
parserVars == <<parser_input, parsed_task, ppc>>
composerVars == <<confirm_call, confirmation, cpc>>
errorVars == <<error_call, handled_error, epc>>
contextVars == <<context_call, built, bpc>>
apiVars == <<db, api_call, api_reply, served>>
chatVars == <<chat_messages, chat_history, llm_messages>>
consoleVars == <<console_tasks, console_made, console_call, console_raised, console_calls>>
vars == <<resolverVars, filterVars, routerVars, parserVars, composerVars, errorVars,
          contextVars, apiVars, chatVars, consoleVars>>

(***************************************************************************)
(* Characters and strings (Python str methods)                             *)
(***************************************************************************)
Ch(s, i) == SubSeq(s, i, i)

UpperChars == "ABCDEFGHIJKLMNOPQRSTUVWXYZ"
LowerChars == "abcdefghijklmnopqrstuvwxyz"
DigitChars == "0123456789"

CharsOf(s) == {Ch(s, i) : i \in 1..Len(s)}

UpperSet == CharsOf(UpperChars)
LowerSet == CharsOf(LowerChars)
DigitSet == CharsOf(DigitChars)
SpaceSet == {" ", "\t", "\n", "\r", "\f"}
WordSet == UpperSet \cup LowerSet \cup DigitSet \cup {"_"}

\* the position of character c in string s (c occurs in s)
IndexOf(s, c) == CHOOSE i \in 1..Len(s) : Ch(s, i) = c

LowerMap == [c \in UpperSet |-> Ch(LowerChars, IndexOf(UpperChars, c))]
UpperMap == [c \in LowerSet |-> Ch(UpperChars, IndexOf(LowerChars, c))]
DigitMap == [c \in DigitSet |-> IndexOf(DigitChars, c) - 1]

LowerCh(c) == IF c \in UpperSet THEN LowerMap[c] ELSE c
UpperCh(c) == IF c \in LowerSet THEN UpperMap[c] ELSE c

RECURSIVE Lower(_)
\* str.lower()
Lower(s) == IF s = "" THEN "" ELSE LowerCh(Head(s)) \o Lower(Tail(s))

RECURSIVE LStrip(_)
LStrip(s) == IF s # "" /\ Head(s) \in SpaceSet THEN LStrip(Tail(s)) ELSE s

RECURSIVE RStrip(_)
RStrip(s) ==
    IF s # "" /\ Ch(s, Len(s)) \in SpaceSet THEN RStrip(SubSeq(s, 1, Len(s) - 1)) ELSE s

\* str.strip()
Strip(s) == RStrip(LStrip(s))

\* sub in s
Contains(s, sub) ==
    \E i \in 1..(Len(s) - Len(sub) + 1) : SubSeq(s, i, i + Len(sub) - 1) = sub

\* the length of the run of characters of `set` that starts at position i of s
RECURSIVE RunLen(_, _, _)
RunLen(s, i, set) ==
    IF i <= Len(s) /\ Ch(s, i) \in set THEN 1 + RunLen(s, i + 1, set) ELSE 0

\* the length of the run of characters not in `set` that starts at position i
RECURSIVE RunLenNot(_, _, _)
RunLenNot(s, i, set) ==
    IF i <= Len(s) /\ Ch(s, i) \notin set THEN 1 + RunLenNot(s, i + 1, set) ELSE 0

\* str.split(): the maximal runs of non-whitespace, in order
RECURSIVE SplitFrom(_, _)
SplitFrom(s, i) ==
    IF i > Len(s) THEN <<>>
    ELSE IF Ch(s, i) \in SpaceSet THEN SplitFrom(s, i + 1)
    ELSE LET n == RunLenNot(s, i, SpaceSet)
         IN  <<SubSeq(s, i, i + n - 1)>> \o SplitFrom(s, i + n)

Split(s) == SplitFrom(s, 1)

\* sep.join(words)
RECURSIVE Join(_, _)
Join(words, sep) ==
    IF words = <<>> THEN ""
    ELSE IF Len(words) = 1 THEN words[1]
    ELSE words[1] \o sep \o Join(Tail(words), sep)

\* int(digits)
RECURSIVE ParseInt(_)
ParseInt(d) ==
    IF d = "" THEN 0
    ELSE 10 * ParseInt(SubSeq(d, 1, Len(d) - 1)) + DigitMap[Ch(d, Len(d))]

(***************************************************************************)
(* Regular expressions (Python re, flags=re.IGNORECASE)                    *)
(***************************************************************************)
Lit(s) == [k |-> "lit", s |-> s]
One(c) == [k |-> "one", c |-> c]
Rep(c, lo) == [k |-> "rep", c |-> c, lo |-> lo]
Opt(r) == [k |-> "opt", r |-> r]
Cat(rs) == [k |-> "cat", rs |-> rs]
Alt(rs) == [k |-> "alt", rs |-> rs]
Grp(r) == [k |-> "grp", r |-> r]
WB == [k |-> "wb"]
Bol == [k |-> "bol"]
Eol == [k |-> "eol"]

\* character classes: \s, \d, [:\-], [:\s#], [\s\-:,] and .
InClass(c, ch) ==
    CASE c = "s" -> ch \in SpaceSet
      [] c = "d" -> ch \in DigitSet
      [] c = ":-" -> ch \in {":", "-"}
      [] c = ":s#" -> ch \in SpaceSet \cup {":", "#"}
      [] c = "s-:," -> ch \in SpaceSet \cup {"-", ":", ","}
      [] c = "." -> ch # "\n"

RECURSIVE ClassRun(_, _, _)
ClassRun(s, i, c) ==
    IF i <= Len(s) /\ InClass(c, Ch(s, i)) THEN 1 + ClassRun(s, i + 1, c) ELSE 0

IsWordAt(s, i) == i >= 1 /\ i <= Len(s) /\ Ch(s, i) \in WordSet

\* one match: e is the position after it, gs..ge-1 the capture group (0: none)
Mt(e, gs, ge) == [e |-> e, gs |-> gs, ge |-> ge]

RECURSIVE M(_, _, _), MSeq(_, _, _, _), MAlt(_, _, _, _), MThen(_, _, _, _, _)

\* the matches of re at position i of s, in the order the backtracking
\* matcher tries them (greedy: the longest repetition first)
M(re, s, i) ==
    CASE re.k = "lit" ->
            IF /\ i + Len(re.s) - 1 <= Len(s)
               /\ LowerCh(Ch(s, i)) = Ch(re.s, 1)
               /\ Lower(SubSeq(s, i, i + Len(re.s) - 1)) = re.s
            THEN <<Mt(i + Len(re.s), 0, 0)>> ELSE <<>>
      [] re.k = "one" ->
            IF i <= Len(s) /\ InClass(re.c, Ch(s, i)) THEN <<Mt(i + 1, 0, 0)>> ELSE <<>>
      [] re.k = "rep" ->
            LET n == ClassRun(s, i, re.c)
            IN  IF n < re.lo THEN <<>>
                ELSE [j \in 1..(n - re.lo + 1) |-> Mt(i + n - (j - 1), 0, 0)]
      [] re.k = "opt" -> M(re.r, s, i) \o <<Mt(i, 0, 0)>>
      [] re.k = "alt" -> MAlt(re.rs, 1, s, i)
      [] re.k = "cat" -> MSeq(re.rs, 1, s, i)
      [] re.k = "grp" ->
            LET ms == M(re.r, s, i) IN [j \in 1..Len(ms) |-> Mt(ms[j].e, i, ms[j].e)]
      [] re.k = "wb" -> IF IsWordAt(s, i - 1) # IsWordAt(s, i) THEN <<Mt(i, 0, 0)>> ELSE <<>>
      [] re.k = "bol" -> IF i = 1 THEN <<Mt(i, 0, 0)>> ELSE <<>>
      [] re.k = "eol" ->
            IF i = Len(s) + 1 \/ (i = Len(s) /\ Ch(s, i) = "\n")
            THEN <<Mt(i, 0, 0)>> ELSE <<>>

MAlt(rs, k, s, i) ==
    IF k > Len(rs) THEN <<>> ELSE M(rs[k], s, i) \o MAlt(rs, k + 1, s, i)

\* for each match of rs[k] in ms[j..], the matches of the rest of the sequence
MThen(rs, k, s, ms, j) ==
    IF j > Len(ms) THEN <<>>
    ELSE LET rest == MSeq(rs, k + 1, s, ms[j].e)
             here == [t \in 1..Len(rest) |->
                        IF rest[t].gs # 0 THEN rest[t]
                        ELSE Mt(rest[t].e, ms[j].gs, ms[j].ge)]
         IN  here \o MThen(rs, k, s, ms, j + 1)

MSeq(rs, k, s, i) ==
    IF k > Len(rs) THEN <<Mt(i, 0, 0)>>
    ELSE MThen(rs, k, s, M(rs[k], s, i), 1)

NoMatch == [found |-> FALSE, start |-> 0, end |-> 0, group |-> ""]

\* re.search(re, s, re.IGNORECASE): the leftmost position where re matches,
\* and there the first match the matcher finds
Search(re, s) ==
    LET starts == {i \in 1..(Len(s) + 1) : M(re, s, i) # <<>>}
    IN  IF starts = {} THEN NoMatch
        ELSE LET i == CHOOSE k \in starts : \A j \in starts : k <= j
                 m == M(re, s, i)[1]
             IN  [found |-> TRUE, start |-> i, end |-> m.e,
                  group |-> IF m.gs = 0 THEN "" ELSE SubSeq(s, m.gs, m.ge - 1)]

(***************************************************************************)
(* Optional values and the floats of the skills                            *)
(***************************************************************************)
\* Optional[T]: None is the empty tuple, a value v is <<v>>
None == <<>>
Some(v) == <<v>>

RECURSIVE Gcd(_, _)
Gcd(a, b) == IF b = 0 THEN a ELSE Gcd(b, a % b)

\* the float n / d (d > 0), kept exact as a fraction in lowest terms
Frac(n, d) == LET g == Gcd(n, d) IN [n |-> n \div g, d |-> d \div g]

FracLt(x, y) == x.n * y.d < y.n * x.d
FracLe(x, y) == x.n * y.d <= y.n * x.d

(***************************************************************************)
(* skills/id_resolver.py: IDResolverSkill                                  *)
(***************************************************************************)
TaskReference(id, title, completed) == [id |-> id, title |-> title, completed |-> completed]

ResolvedTask(task_id, confidence, matched_title, resolution_method) ==
    [task_id |-> task_id, confidence |-> confidence,
     matched_title |-> matched_title, resolution_method |-> resolution_method]

\* ResolvedTask(): the dataclass defaults
ResolvedNone == ResolvedTask(None, Frac(0, 1), None, "none")

ID_PATTERNS == <<
    \* (?:task|todo|item)?\s*#?\s*(\d+)
    Cat(<<Opt(Alt(<<Lit("task"), Lit("todo"), Lit("item")>>)), Rep("s", 0),
          Opt(Lit("#")), Rep("s", 0), Grp(Rep("d", 1))>>),
    \* (?:id|number)\s*[:\-]?\s*(\d+)
    Cat(<<Alt(<<Lit("id"), Lit("number")>>), Rep("s", 0), Opt(One(":-")),
          Rep("s", 0), Grp(Rep("d", 1))>>),
    \* #(\d+)
    Cat(<<Lit("#"), Grp(Rep("d", 1))>>) >>

ORDINALS == <<
    <<"first", 0>>, <<"1st", 0>>,
    <<"second", 1>>, <<"2nd", 1>>,
    <<"third", 2>>, <<"3rd", 2>>,
    <<"fourth", 3>>, <<"4th", 3>>,
    <<"fifth", 4>>, <<"5th", 4>>,
    <<"last", -1>>, <<"latest", -1>>, <<"newest", -1>>, <<"most recent", -1>> >>

STOP_WORDS == {
    "the", "a", "an", "task", "todo", "item", "called", "named",
    "titled", "about", "for", "to", "my", "that", "this", "one",
    "please", "can", "you", "complete", "finish", "delete", "remove",
    "mark", "done", "update", "edit", "change" }

\* the first task of ts[j..] whose id is task_id, as a one-element tuple, or <<>>
RECURSIVE FirstWithId(_, _, _)
FirstWithId(ts, j, task_id) ==
    IF j > Len(ts) THEN <<>>
    ELSE IF ts[j].id = task_id THEN <<ts[j]>>
    ELSE FirstWithId(ts, j + 1, task_id)

RECURSIVE TryDirectIdFrom(_, _, _)
TryDirectIdFrom(text, ts, p) ==
    IF p > Len(ID_PATTERNS) THEN ResolvedNone
    ELSE LET match == Search(ID_PATTERNS[p], text)
             hit == IF match.found THEN FirstWithId(ts, 1, ParseInt(match.group)) ELSE <<>>
         IN  IF hit # <<>>
             THEN ResolvedTask(Some(hit[1].id), Frac(1, 1), Some(hit[1].title), "exact_id")
             ELSE TryDirectIdFrom(text, ts, p + 1)

\* a _try_direct_id that does not verify that the task exists
TryDirectIdUnverified(text, ts) ==
    LET match == Search(ID_PATTERNS[1], text)
    IN  IF match.found
        THEN ResolvedTask(Some(ParseInt(match.group)), Frac(1, 1), None, "exact_id")
        ELSE TryDirectIdFrom(text, ts, 1)

\* IDResolverSkill._try_direct_id
TryDirectId(text, ts) == TryDirectIdFrom(text, ts, 1)

RECURSIVE TryOrdinalFrom(_, _, _)
TryOrdinalFrom(text, ts, o) ==
    IF o > Len(ORDINALS) THEN ResolvedNone
    ELSE LET ordinal == ORDINALS[o][1]
             index == ORDINALS[o][2]
             \* tasks[0] for -1; tasks[index] raises IndexError past the end
             pos == IF index = -1 THEN 1 ELSE index + 1
         IN  IF Contains(text, ordinal) /\ pos <= Len(ts)
             THEN ResolvedTask(Some(ts[pos].id), Frac(9, 10), Some(ts[pos].title), "ordinal")
             ELSE TryOrdinalFrom(text, ts, o + 1)

\* IDResolverSkill._try_ordinal
TryOrdinal(text, ts) == TryOrdinalFrom(text, ts, 1)

IsNotStopWord(w) == w \notin STOP_WORDS

\* IDResolverSkill._remove_stop_words
RemoveStopWords(text) == Join(SelectSeq(Split(text), IsNotStopWord), " ")

SetOf(q) == {q[i] : i \in 1..Len(q)}

\* IDResolverSkill._calculate_similarity
CalculateSimilarity(text1, text2) ==
    IF text1 = "" \/ text2 = "" THEN Frac(0, 1)
    ELSE IF text1 = text2 THEN Frac(1, 1)
    ELSE IF Contains(text2, text1) \/ Contains(text1, text2) THEN Frac(9, 10)
    ELSE LET words1 == SetOf(Split(text1))
             words2 == SetOf(Split(text2))
         IN  IF words1 = {} \/ words2 = {} THEN Frac(0, 1)
             ELSE Frac(Cardinality(words1 \cap words2), Cardinality(words1 \cup words2))

\* the score _try_title_match gives a task for the (lowered, stripped) text
TitleScore(text, task) ==
    CalculateSimilarity(RemoveStopWords(text), RemoveStopWords(Lower(task.title)))

MIN_SCORE == Frac(1, 2)

RECURSIVE BestMatchFrom(_, _, _, _, _), BestMatchLastTie(_, _, _, _, _)

\* a _try_title_match loop with `score >= best_score`: a tie keeps the later task
BestMatchLastTie(text, ts, j, best, best_score) ==
    IF j > Len(ts) THEN [match |-> best, score |-> best_score]
    ELSE LET score == TitleScore(text, ts[j])
         IN  IF FracLe(best_score, score) /\ FracLe(MIN_SCORE, score)
             THEN BestMatchLastTie(text, ts, j + 1, <<ts[j]>>, score)
             ELSE BestMatchLastTie(text, ts, j + 1, best, best_score)

\* the loop of _try_title_match over tasks[j..]: best is <<>> or <<task>>
BestMatchFrom(text, ts, j, best, best_score) ==
    IF j > Len(ts) THEN [match |-> best, score |-> best_score]
    ELSE LET score == TitleScore(text, ts[j])
         IN  IF FracLt(best_score, score) /\ FracLe(MIN_SCORE, score)
             THEN BestMatchFrom(text, ts, j + 1, <<ts[j]>>, score)
             ELSE BestMatchFrom(text, ts, j + 1, best, best_score)

\* IDResolverSkill._try_title_match
TryTitleMatch(text, ts) ==
    LET b == BestMatchFrom(text, ts, 1, <<>>, Frac(0, 1))
    IN  IF b.match # <<>>
        THEN ResolvedTask(Some(b.match[1].id), b.score, Some(b.match[1].title), "title_match")
        ELSE ResolvedNone

\* an execute that answers "none" as soon as the text holds a number that
\* is no candidate's id
ResolverExecuteStopsOnNumber(input, ts) ==
    IF input = "" \/ ts = <<>> THEN ResolvedNone
    ELSE LET text == Strip(Lower(input))
             r1 == TryDirectId(text, ts)
             r2 == TryOrdinal(text, ts)
             r3 == TryTitleMatch(text, ts)
         IN  IF r1.task_id # None THEN r1
             ELSE IF Search(ID_PATTERNS[1], text).found THEN ResolvedNone
             ELSE IF r2.task_id # None THEN r2
             ELSE IF r3.task_id # None THEN r3
             ELSE ResolvedNone

\* IDResolverSkill.execute
ResolverExecute(input, ts) ==
    IF input = "" \/ ts = <<>> THEN ResolvedNone
    ELSE LET text == Strip(Lower(input))
             r1 == TryDirectId(text, ts)
             r2 == TryOrdinal(text, ts)
             r3 == TryTitleMatch(text, ts)
         IN  IF r1.task_id # None THEN r1
             ELSE IF r2.task_id # None THEN r2
             ELSE IF r3.task_id # None THEN r3
             ELSE ResolvedNone

(***************************************************************************)
(* skills/filter_mapper.py: FilterMapperSkill                              *)
(***************************************************************************)
FilterParams(status, confidence) == [status |-> status, confidence |-> confidence]

COMPLETED_KEYWORDS == <<
    \* \bcompleted?\b
    Cat(<<WB, Lit("complete"), Opt(Lit("d")), WB>>),
    \* \bfinished\b
    Cat(<<WB, Lit("finished"), WB>>),
    \* \bdone\b
    Cat(<<WB, Lit("done"), WB>>),
    \* \bchecked\s*off\b
    Cat(<<WB, Lit("checked"), Rep("s", 0), Lit("off"), WB>>),
    \* \bmarked\s*(?:as\s+)?(?:done|complete)\b
    Cat(<<WB, Lit("marked"), Rep("s", 0), Opt(Cat(<<Lit("as"), Rep("s", 1)>>)),
          Alt(<<Lit("done"), Lit("complete")>>), WB>>),
    \* \baccomplished\b
    Cat(<<WB, Lit("accomplished"), WB>>),
    \* \bwhat\s+(?:have\s+)?i\s+(?:have\s+)?(?:finished|completed|done)\b
    Cat(<<WB, Lit("what"), Rep("s", 1), Opt(Cat(<<Lit("have"), Rep("s", 1)>>)),
          Lit("i"), Rep("s", 1), Opt(Cat(<<Lit("have"), Rep("s", 1)>>)),
          Alt(<<Lit("finished"), Lit("completed"), Lit("done")>>), WB>>) >>

PENDING_KEYWORDS == <<
    \* \bpending\b
    Cat(<<WB, Lit("pending"), WB>>),
    \* \bincomplete\b
    Cat(<<WB, Lit("incomplete"), WB>>),
    \* \bunfinished\b
    Cat(<<WB, Lit("unfinished"), WB>>),
    \* \boutstanding\b
    Cat(<<WB, Lit("outstanding"), WB>>),
    \* \bremaining\b
    Cat(<<WB, Lit("remaining"), WB>>),
    \* \bleft\s+(?:to\s+do)?\b
    Cat(<<WB, Lit("left"), Rep("s", 1),
          Opt(Cat(<<Lit("to"), Rep("s", 1), Lit("do")>>)), WB>>),
    \* \bto\s*-?\s*do\b
    Cat(<<WB, Lit("to"), Rep("s", 0), Opt(Lit("-")), Rep("s", 0), Lit("do"), WB>>),
    \* \bnot\s+(?:done|completed?|finished)\b
    Cat(<<WB, Lit("not"), Rep("s", 1),
          Alt(<<Lit("done"), Cat(<<Lit("complete"), Opt(Lit("d"))>>), Lit("finished")>>),
          WB>>),
    \* \bopen\b
    Cat(<<WB, Lit("open"), WB>>),
    \* \bactive\b
    Cat(<<WB, Lit("active"), WB>>),
    \* \bwhat(?:'s|\s+is)\s+left\b
    Cat(<<WB, Lit("what"), Alt(<<Lit("'s"), Cat(<<Rep("s", 1), Lit("is")>>)>>),
          Rep("s", 1), Lit("left"), WB>>),
    \* \bwhat\s+(?:do\s+)?i\s+(?:still\s+)?(?:need|have)\s+to\s+do\b
    Cat(<<WB, Lit("what"), Rep("s", 1), Opt(Cat(<<Lit("do"), Rep("s", 1)>>)),
          Lit("i"), Rep("s", 1), Opt(Cat(<<Lit("still"), Rep("s", 1)>>)),
          Alt(<<Lit("need"), Lit("have")>>), Rep("s", 1), Lit("to"), Rep("s", 1),
          Lit("do"), WB>>),
    \* \bwhat\s+(?:else\s+)?(?:do\s+)?i\s+need\s+to\b
    Cat(<<WB, Lit("what"), Rep("s", 1), Opt(Cat(<<Lit("else"), Rep("s", 1)>>)),
          Opt(Cat(<<Lit("do"), Rep("s", 1)>>)), Lit("i"), Rep("s", 1), Lit("need"),
          Rep("s", 1), Lit("to"), WB>>) >>

ALL_KEYWORDS == <<
    \* \ball\b
    Cat(<<WB, Lit("all"), WB>>),
    \* \beverything\b
    Cat(<<WB, Lit("everything"), WB>>),
    \* \bfull\s+list\b
    Cat(<<WB, Lit("full"), Rep("s", 1), Lit("list"), WB>>),
    \* \bentire\b
    Cat(<<WB, Lit("entire"), WB>>),
    \* \bwhole\b
    Cat(<<WB, Lit("whole"), WB>>) >>

\* for pattern in patterns: if re.search(pattern, text, re.IGNORECASE)
AnySearch(patterns, text) == \E p \in 1..Len(patterns) : Search(patterns[p], text).found

\* an execute that checks the completed keywords before the all keywords
FilterMapperCompletedFirst(input) ==
    IF input = "" THEN FilterParams("all", Frac(1, 1))
    ELSE LET text == Strip(Lower(input))
         IN  IF AnySearch(COMPLETED_KEYWORDS, text) THEN FilterParams("completed", Frac(9, 10))
             ELSE IF AnySearch(ALL_KEYWORDS, text) THEN FilterParams("all", Frac(95, 100))
             ELSE IF AnySearch(PENDING_KEYWORDS, text) THEN FilterParams("pending", Frac(9, 10))
             ELSE FilterParams("all", Frac(7, 10))

\* FilterMapperSkill.execute
FilterMapperExecute(input) ==
    IF input = "" THEN FilterParams("all", Frac(1, 1))
    ELSE LET text == Strip(Lower(input))
         IN  IF AnySearch(ALL_KEYWORDS, text) THEN FilterParams("all", Frac(95, 100))
             ELSE IF AnySearch(COMPLETED_KEYWORDS, text) THEN FilterParams("completed", Frac(9, 10))
             ELSE IF AnySearch(PENDING_KEYWORDS, text) THEN FilterParams("pending", Frac(9, 10))
             ELSE FilterParams("all", Frac(7, 10))

(***************************************************************************)
(* skills/task_parser.py: TaskParserSkill                                  *)
(***************************************************************************)
ParsedTask(title, description, has_title) ==
    [title |-> title, description |-> description, has_title |-> has_title]

PREFIXES == <<
    \* ^(?:please\s+)?(?:can you\s+)?(?:could you\s+)?
    Cat(<<Bol, Opt(Cat(<<Lit("please"), Rep("s", 1)>>)),
          Opt(Cat(<<Lit("can you"), Rep("s", 1)>>)),
          Opt(Cat(<<Lit("could you"), Rep("s", 1)>>))>>),
    \* ^(?:i want to\s+|i need to\s+|i'd like to\s+)?
    Cat(<<Bol, Opt(Alt(<<Cat(<<Lit("i want to"), Rep("s", 1)>>),
                         Cat(<<Lit("i need to"), Rep("s", 1)>>),
                         Cat(<<Lit("i'd like to"), Rep("s", 1)>>)>>))>>),
    \* ^(?:add|create|make|new)\s+(?:a\s+)?(?:new\s+)?(?:task|todo|item)\s*
    Cat(<<Bol, Alt(<<Lit("add"), Lit("create"), Lit("make"), Lit("new")>>), Rep("s", 1),
          Opt(Cat(<<Lit("a"), Rep("s", 1)>>)), Opt(Cat(<<Lit("new"), Rep("s", 1)>>)),
          Alt(<<Lit("task"), Lit("todo"), Lit("item")>>), Rep("s", 0)>>),
    \* ^(?:task|todo)\s*:?\s*
    Cat(<<Bol, Alt(<<Lit("task"), Lit("todo")>>), Rep("s", 0), Opt(Lit(":")), Rep("s", 0)>>),
    \* ^(?:remind me to\s+|don't forget to\s+|remember to\s+)
    Cat(<<Bol, Alt(<<Cat(<<Lit("remind me to"), Rep("s", 1)>>),
                     Cat(<<Lit("don't forget to"), Rep("s", 1)>>),
                     Cat(<<Lit("remember to"), Rep("s", 1)>>)>>)>>),
    \* ^(?:called|named|titled)\s+
    Cat(<<Bol, Alt(<<Lit("called"), Lit("named"), Lit("titled")>>), Rep("s", 1)>>) >>

DESCRIPTION_PATTERNS == <<
    \* (?:with\s+)?(?:description|desc|details?|note)\s*[:\-]?\s*(.+)$
    Cat(<<Opt(Cat(<<Lit("with"), Rep("s", 1)>>)),
          Alt(<<Lit("description"), Lit("desc"), Cat(<<Lit("detail"), Opt(Lit("s"))>>),
                Lit("note")>>),
          Rep("s", 0), Opt(One(":-")), Rep("s", 0), Grp(Rep(".", 1)), Eol>>),
    \* \s+-\s+(.+)$
    Cat(<<Rep("s", 1), Lit("-"), Rep("s", 1), Grp(Rep(".", 1)), Eol>>),
    \* \s+\((.+)\)$
    Cat(<<Rep("s", 1), Lit("("), Grp(Rep(".", 1)), Lit(")"), Eol>>) >>

\* re.sub(re, "", s) for a pattern anchored by ^: the match at the start, if
\* there is one, is removed
SubPrefix(re, s) ==
    IF Len(s) = 0 \/ M(re, s, 1) = <<>> THEN s
    ELSE SubSeq(s, M(re, s, 1)[1].e, Len(s))

\* the loop over PREFIXES: each pattern is removed in turn and the text
\* stripped after each
RemovePrefixes(text) ==
    LET t1 == Strip(SubPrefix(PREFIXES[1], text))
        t2 == Strip(SubPrefix(PREFIXES[2], t1))
        t3 == Strip(SubPrefix(PREFIXES[3], t2))
        t4 == Strip(SubPrefix(PREFIXES[4], t3))
        t5 == Strip(SubPrefix(PREFIXES[5], t4))
    IN  Strip(SubPrefix(PREFIXES[6], t5))

\* what a match of a description pattern makes of the text
SplitAt(text, match) ==
    [description |-> Some(Strip(match.group)),
     text |-> Strip(SubSeq(text, 1, match.start - 1))]

\* the loop over DESCRIPTION_PATTERNS with the " - " pattern tried first
FirstDescriptionDashFirst(text, m1, m2, m3) ==
    IF m2.found THEN SplitAt(text, m2)
    ELSE IF m1.found THEN SplitAt(text, m1)
    ELSE IF m3.found THEN SplitAt(text, m3)
    ELSE [description |-> None, text |-> text]

\* the loop over DESCRIPTION_PATTERNS, given what re.search finds for each
\* pattern: the first pattern that matches splits the text
FirstDescription(text, m1, m2, m3) ==
    IF m1.found THEN SplitAt(text, m1)
    ELSE IF m2.found THEN SplitAt(text, m2)
    ELSE IF m3.found THEN SplitAt(text, m3)
    ELSE [description |-> None, text |-> text]

ExtractDescription(text) ==
    FirstDescription(text, Search(DESCRIPTION_PATTERNS[1], text),
                     Search(DESCRIPTION_PATTERNS[2], text),
                     Search(DESCRIPTION_PATTERNS[3], text))

\* re.sub(r'^[\s\-:,]+', '', text)
SubLeading(text) == SubSeq(text, ClassRun(text, 1, "s-:,") + 1, Len(text))

\* re.sub(r'[\s\-:,]+$', '', text)
SubTrailing(text) ==
    SubSeq(text, 1, Len(text) -
        (CHOOSE n \in 0..Len(text) :
            /\ \A i \in (Len(text) - n + 1)..Len(text) : InClass("s-:,", Ch(text, i))
            /\ n < Len(text) => ~InClass("s-:,", Ch(text, Len(text) - n))))

\* the quotes around a title are removed when both ends carry the same one
Unquote(text) ==
    IF /\ Len(text) >= 2
       /\ \/ Ch(text, 1) = "\"" /\ Ch(text, Len(text)) = "\""
          \/ Ch(text, 1) = "'" /\ Ch(text, Len(text)) = "'"
    THEN SubSeq(text, 2, Len(text) - 1) ELSE text

\* text[0].upper() + text[1:]
CapitalizeFirst(text) ==
    IF text # "" THEN UpperCh(Ch(text, 1)) \o SubSeq(text, 2, Len(text)) ELSE text

\* _clean_title returning the capitalised text as it is, without .strip()
CleanTitleUnstripped(text) == CapitalizeFirst(Unquote(SubTrailing(SubLeading(text))))

\* TaskParserSkill._clean_title
CleanTitle(text) == Strip(CapitalizeFirst(Unquote(SubTrailing(SubLeading(text)))))

\* the end of TaskParserSkill.execute: the title and the description found
ParsedFrom(title, description) ==
    IF title = "" THEN ParsedTask("", None, FALSE)
    ELSE ParsedTask(title, description, TRUE)

\* the middle of TaskParserSkill.execute: d is what the description patterns
\* made of the text
ParseExtracted(d) == ParsedFrom(CleanTitle(RemovePrefixes(d.text)), d.description)

\* TaskParserSkill.execute
TaskParserExecute(input) ==
    IF input = "" \/ Strip(input) = "" THEN ParsedTask("", None, FALSE)
    ELSE ParseExtracted(ExtractDescription(Strip(input)))

(***************************************************************************)
(* skills/confirmation_generator.py: ConfirmationGeneratorSkill            *)
(***************************************************************************)
\* TaskInfo: description is an Optional[str]
TaskInfo(id, title, description, completed) ==
    [id |-> id, title |-> title, description |-> description, completed |-> completed]

Quoted(s) == "\"" \o s \o "\""

ConfirmCreated(task) ==
    "I've added " \o Quoted(task.title) \o " to your tasks." \o
    (IF task.description # None /\ task.description # Some("")
     THEN " (" \o task.description[1] \o ")" ELSE "")

ConfirmCompleted(task) == "Nice work! " \o Quoted(task.title) \o " is now complete."

ConfirmAlreadyCompleted(task) == Quoted(task.title) \o " was already marked as complete."

ConfirmDeleted(task) == "I've removed " \o Quoted(task.title) \o " from your tasks."

\* _format_changes joining the last item by " and " whatever the length
FormatChangesPlainAnd(changes) ==
    IF Len(changes) = 1 THEN changes[1]
    ELSE Join(SubSeq(changes, 1, Len(changes) - 1), ", ") \o " and " \o changes[Len(changes)]

\* ConfirmationGeneratorSkill._format_changes
FormatChanges(changes) ==
    IF Len(changes) = 1 THEN changes[1]
    ELSE IF Len(changes) = 2 THEN changes[1] \o " and " \o changes[2]
    ELSE Join(SubSeq(changes, 1, Len(changes) - 1), ", ") \o ", and " \o changes[Len(changes)]

ConfirmUpdated(task, changes) ==
    IF changes = <<>> THEN "No changes were made to " \o Quoted(task.title) \o "."
    ELSE "I've updated the " \o FormatChanges(changes) \o " for " \o Quoted(task.title) \o "."

ConfirmListed(infos, filter_applied) ==
    LET count == Len(infos)
        pending == Cardinality({i \in 1..count : ~infos[i].completed})
        completed == count - pending
        parts == (IF pending > 0 THEN <<ToString(pending) \o " pending">> ELSE <<>>) \o
                 (IF completed > 0 THEN <<ToString(completed) \o " completed">> ELSE <<>>)
    IN  IF infos = <<>>
        THEN IF filter_applied = "completed" THEN "You haven't completed any tasks yet."
             ELSE IF filter_applied = "pending" THEN "Great news! You have no pending tasks."
             ELSE "You don't have any tasks yet. Would you like to add one?"
        ELSE IF filter_applied = "pending"
        THEN IF count = 1 THEN "You have 1 pending task: " \o Quoted(infos[1].title)
             ELSE "You have " \o ToString(count) \o " pending tasks."
        ELSE IF filter_applied = "completed"
        THEN IF count = 1 THEN "You've completed 1 task: " \o Quoted(infos[1].title)
             ELSE "You've completed " \o ToString(count) \o " tasks."
        ELSE IF count = 1
        THEN "You have 1 task (" \o (IF infos[1].completed THEN "completed" ELSE "pending")
             \o "): " \o Quoted(infos[1].title)
        ELSE "You have " \o ToString(count) \o " tasks (" \o Join(parts, ", ") \o ")."

\* the arguments of ConfirmationGeneratorSkill.execute: all but action are
\* Optional and None by default
ConfirmCall(action, task, infos, changes, filter_applied) ==
    [action |-> action, task |-> task, tasks |-> infos, changes |-> changes,
     filter_applied |-> filter_applied]

\* `x or []`: what `if not x` tests for an Optional[List]
OrEmpty(optional) == IF optional = None THEN <<>> ELSE optional[1]

\* an Optional[str] compared with the names of the filters
OrNoFilter(optional) == IF optional = None THEN "" ELSE optional[1]

\* ConfirmationGeneratorSkill.execute: each _confirm_* method returns a
\* generic message when there is no task
ConfirmationExecute(call) ==
    CASE call.action = "created" ->
            IF call.task = None THEN "Task created successfully."
            ELSE ConfirmCreated(call.task[1])
      [] call.action = "completed" ->
            IF call.task = None THEN "Task marked as complete."
            ELSE ConfirmCompleted(call.task[1])
      [] call.action = "already_completed" ->
            IF call.task = None THEN "This task is already completed."
            ELSE ConfirmAlreadyCompleted(call.task[1])
      [] call.action = "deleted" ->
            IF call.task = None THEN "Task deleted."
            ELSE ConfirmDeleted(call.task[1])
      [] call.action = "updated" ->
            IF call.task = None THEN "Task updated successfully."
            ELSE ConfirmUpdated(call.task[1], OrEmpty(call.changes))
      [] call.action = "listed" ->
            ConfirmListed(OrEmpty(call.tasks), OrNoFilter(call.filter_applied))
      [] OTHER -> "Operation completed."

(***************************************************************************)
(* skills/error_handler.py: ErrorHandlerSkill                              *)
(***************************************************************************)
\* an exception: the name of its type and its str()
Exception(type, str) == [type |-> type, str |-> str]

ErrorInfo(message, suggestion) == [message |-> message, suggestion |-> suggestion]

\* ERROR_MESSAGES.get(error_type, default)
ERROR_MESSAGES(error_type) ==
    CASE error_type = "TaskNotFoundError" ->
            ErrorInfo("I couldn't find that task.",
                      "Would you like me to show you your current tasks?")
      [] error_type = "UnauthorizedError" ->
            ErrorInfo("You don't have permission to access that task.",
                      "Please make sure you're referring to one of your own tasks.")
      [] error_type = "ValidationError" ->
            ErrorInfo("There was a problem with the task details.",
                      "Please check that the title is between 1-200 characters.")
      [] error_type = "DatabaseError" ->
            ErrorInfo("I'm having trouble accessing the database right now.",
                      "Please try again in a moment.")
      [] error_type = "ValueError" ->
            ErrorInfo("I didn't quite understand that.",
                      "Could you try rephrasing your request?")
      [] OTHER ->
            ErrorInfo("Something went wrong.", "Please try again or rephrase your request.")

\* ErrorHandlerSkill.execute(error=e): the ErrorResponse
ErrorHandlerExecute(error) ==
    LET error_info == ERROR_MESSAGES(error.type)
        message == IF error.type = "TaskNotFoundError" /\ Contains(error.str, "ID")
                   THEN "I couldn't find a task with that ID."
                   ELSE error_info.message
    IN  [message |-> message, error_type |-> error.type, suggestion |-> error_info.suggestion]

\* the arguments of ErrorHandlerSkill.execute, all Optional
ErrorCall(error, error_type, context) ==
    [error |-> error, error_type |-> error_type, context |-> context]

\* the error type execute settles on: the class name of the exception if
\* there is one, else the name given, else "UnknownError"
ErrorTypeOf(call) ==
    IF call.error # None THEN call.error[1].type
    ELSE IF call.error_type = None \/ call.error_type = Some("") THEN "UnknownError"
    ELSE call.error_type[1]

\* the message of the table with the context, if any, in front
WithContext(context, message) ==
    IF context # None /\ context # Some("") THEN context[1] \o ": " \o message ELSE message

\* the rest of execute once the error type is settled
ErrorResponseOf(call, error_type) ==
    [message |-> IF /\ call.error # None
                    /\ error_type = "TaskNotFoundError"
                    /\ Contains(call.error[1].str, "ID")
                 THEN "I couldn't find a task with that ID."
                 ELSE WithContext(call.context, ERROR_MESSAGES(error_type).message),
     error_type |-> error_type,
     suggestion |-> ERROR_MESSAGES(error_type).suggestion]

\* ErrorHandlerSkill.execute(error, error_type, context)
ErrorHandlerCall(call) == ErrorResponseOf(call, ErrorTypeOf(call))

\* ErrorHandlerSkill.format_response
FormatResponse(error_response) ==
    IF error_response.suggestion # ""
    THEN error_response.message \o " " \o error_response.suggestion
    ELSE error_response.message

\* error_handler.format_response(error_handler.execute(error=e))
ErrorMessage(error) == FormatResponse(ErrorHandlerExecute(error))

(***************************************************************************)
(* skills/context_builder.py: ContextBuilderSkill                          *)
(***************************************************************************)
MessageContext(role, content) == [role |-> role, content |-> content]

BuiltContext(messages, recent_task_ids, last_action) ==
    [messages |-> messages, summary |-> None, recent_task_ids |-> recent_task_ids,
     last_action |-> last_action]

MAX_HISTORY_MESSAGES == 20
RECENT_IDS_WINDOW == 10
RECENT_IDS_LIMIT == 5
LAST_ACTION_WINDOW == 5

\* the first line of the prompt; the lines after it are part of the same
\* constant and no code reads them
SYSTEM_PROMPT ==
    "You are a helpful task management assistant. You help users manage their tasks by:"

\* history[-n:]
LastEntries(history, n) ==
    IF Len(history) <= n THEN history
    ELSE SubSeq(history, Len(history) - n + 1, Len(history))

\* history[:n]
FirstEntries(history, n) ==
    IF Len(history) <= n THEN history ELSE SubSeq(history, 1, n)

\* _truncate_history keeping the oldest messages, history[:MAX_HISTORY_MESSAGES]
TruncateHistoryOldest(history) == FirstEntries(history, MAX_HISTORY_MESSAGES)

\* ContextBuilderSkill._truncate_history
TruncateHistory(history) ==
    IF Len(history) <= MAX_HISTORY_MESSAGES THEN history
    ELSE LastEntries(history, MAX_HISTORY_MESSAGES)

\* (?:task|id)[:\s#]*(\d+)
TASK_ID_PATTERN ==
    Cat(<<Alt(<<Lit("task"), Lit("id")>>), Rep(":s#", 0), Grp(Rep("d", 1))>>)

RECURSIVE FindAllFrom(_, _, _), FindAllAfter(_, _, _, _)

\* re.findall(re, s, re.IGNORECASE) for a pattern with one group that
\* matches no empty text: the groups of the matches, found from left to
\* right, each search starting where the match before it ended
FindAllFrom(re, s, i) ==
    IF i > Len(s) THEN <<>> ELSE FindAllAfter(re, s, i, M(re, s, i))

\* ms: the matches at position i
FindAllAfter(re, s, i, ms) ==
    IF ms = <<>> THEN FindAllFrom(re, s, i + 1)
    ELSE <<SubSeq(s, ms[1].gs, ms[1].ge - 1)>> \o FindAllFrom(re, s, ms[1].e)

FindAll(re, s) == FindAllFrom(re, s, 1)

\* the loop over the matches of one message: int(match) is appended
\* unless it is in the list
RECURSIVE AppendNewIds(_, _, _)
AppendNewIds(task_ids, matches, k) ==
    IF k > Len(matches) THEN task_ids
    ELSE AppendNewIds(
            IF \E j \in 1..Len(task_ids) : task_ids[j] = ParseInt(matches[k])
            THEN task_ids ELSE Append(task_ids, ParseInt(matches[k])),
            matches, k + 1)

\* the loop over reversed(window), from entry k down, with no test of the
\* role of the message
RECURSIVE ScanAnyRole(_, _, _)
ScanAnyRole(window, k, task_ids) ==
    IF k = 0 THEN task_ids
    ELSE ScanAnyRole(window, k - 1,
            AppendNewIds(task_ids, FindAll(TASK_ID_PATTERN, window[k].content), 1))

\* the loop over reversed(history[-10:]), from entry k of the window down
RECURSIVE ScanRecent(_, _, _)
ScanRecent(window, k, task_ids) ==
    IF k = 0 THEN task_ids
    ELSE ScanRecent(window, k - 1,
            IF window[k].role = "assistant"
            THEN AppendNewIds(task_ids, FindAll(TASK_ID_PATTERN, window[k].content), 1)
            ELSE task_ids)

\* _extract_recent_task_ids reading the messages of every role
RecentIdsOfAnyRole(window) ==
    FirstEntries(ScanAnyRole(window, Len(window), <<>>), RECENT_IDS_LIMIT)

RecentIdsOf(window) ==
    FirstEntries(ScanRecent(window, Len(window), <<>>), RECENT_IDS_LIMIT)

\* ContextBuilderSkill._extract_recent_task_ids
ExtractRecentTaskIds(history) == RecentIdsOf(LastEntries(history, RECENT_IDS_WINDOW))

\* action_keywords, in the order of the dict
ACTION_KEYWORDS == <<
    <<"added", "add">>, <<"created", "add">>, <<"completed", "complete">>,
    <<"finished", "complete">>, <<"deleted", "delete">>, <<"removed", "delete">>,
    <<"updated", "update">>, <<"listed", "list">>, <<"showing", "list">> >>

\* the loop over action_keywords for one message: the action of the first
\* keyword the lowered content holds
RECURSIVE ActionIn(_, _)
ActionIn(content_lower, k) ==
    IF k > Len(ACTION_KEYWORDS) THEN None
    ELSE IF Contains(content_lower, ACTION_KEYWORDS[k][1]) THEN Some(ACTION_KEYWORDS[k][2])
    ELSE ActionIn(content_lower, k + 1)

RECURSIVE ScanLastAction(_, _)
ScanLastAction(window, k) ==
    IF k = 0 THEN None
    ELSE IF window[k].role = "assistant" /\ ActionIn(Lower(window[k].content), 1) # None
    THEN ActionIn(Lower(window[k].content), 1)
    ELSE ScanLastAction(window, k - 1)

LastActionOf(window) == ScanLastAction(window, Len(window))

\* ContextBuilderSkill._extract_last_action
ExtractLastAction(history) == LastActionOf(LastEntries(history, LAST_ACTION_WINDOW))

\* the arguments of ContextBuilderSkill.execute
ContextCall(conversation_history, message, include_system_prompt) ==
    [conversation_history |-> conversation_history, user_message |-> message,
     include_system_prompt |-> include_system_prompt]

\* the dict of a message in the format of the OpenAI API
MessageDict(msg) == [role |-> msg.role, content |-> msg.content]

MessageDicts(history) == [k \in 1..Len(history) |-> MessageDict(history[k])]

\* ContextBuilderSkill.execute
ContextBuilderExecute(call) ==
    BuiltContext(
        (IF call.include_system_prompt
         THEN <<[role |-> "system", content |-> SYSTEM_PROMPT]>> ELSE <<>>)
        \o MessageDicts(TruncateHistory(call.conversation_history))
        \o <<[role |-> "user", content |-> call.user_message]>>,
        ExtractRecentTaskIds(call.conversation_history),
        ExtractLastAction(call.conversation_history))

(***************************************************************************)
(* models.py and mcp_server: the tasks table and the five task tools       *)
(***************************************************************************)
\* a row of the tasks table (models.Task)
Task(id, uid, title, description, completed, created_at, updated_at) ==
    [id |-> id, user_id |-> uid, title |-> title, description |-> description,
     completed |-> completed, created_at |-> created_at, updated_at |-> updated_at]

\* the database as a tool sees it: the rows, the next value of the id
\* sequence and the clock that datetime.utcnow() reads
Store(rows, nid, clock) == [tasks |-> rows, next_id |-> nid, now |-> clock]

TITLE_MAX_LENGTH == 200
DESCRIPTION_MAX_LENGTH == 500

\* a tool call that returns `out` and leaves the store `s`
ToolReturn(out, s) == [raised |-> FALSE, error |-> Exception("", ""), out |-> out, store |-> s]

\* a tool call that raises: nothing is committed
ToolRaise(type, str, s) ==
    [raised |-> TRUE, error |-> Exception(type, str), out |-> <<>>, store |-> s]

\* next(get_session()) and the statements of a tool fail when the database
\* cannot be reached
DatabaseDown(s) == ToolRaise("OperationalError", "connection to server failed", s)

\* the position in rows of the task with this id, 0 when there is none
RowOf(rows, task_id) ==
    IF \E i \in 1..Len(rows) : rows[i].id = task_id
    THEN CHOOSE i \in 1..Len(rows) : rows[i].id = task_id
    ELSE 0

\* _get_task_by_id without the ownership check: any user's task is returned
GetTaskErrorUnowned(rows, uid, task_id) ==
    IF RowOf(rows, task_id) = 0
    THEN <<Exception("TaskNotFoundError",
                     "Task with ID " \o ToString(task_id) \o " not found")>>
    ELSE <<>>

\* _get_task_by_id: the exception it raises, as a one-element tuple, or <<>>
GetTaskError(rows, uid, task_id) ==
    LET i == RowOf(rows, task_id)
    IN  IF i = 0
        THEN <<Exception("TaskNotFoundError",
                         "Task with ID " \o ToString(task_id) \o " not found")>>
        ELSE IF rows[i].user_id # uid
        THEN <<Exception("UnauthorizedError",
                         "User " \o uid \o " does not own task " \o ToString(task_id))>>
        ELSE <<>>

\* _task_to_item
TaskItem(row) ==
    [id |-> row.id, title |-> row.title, description |-> row.description,
     completed |-> row.completed, created_at |-> row.created_at]

\* the statement without order_by: the rows as the table holds them
OrderByNothing(rows) == rows

\* complete_task writing the row whether or not the task was completed
CompleteTaskAlwaysWrites(s, db_ok, uid, task_id) ==
    IF ~db_ok THEN DatabaseDown(s)
    ELSE LET err == GetTaskError(s.tasks, uid, task_id)
             i == RowOf(s.tasks, task_id)
             task == s.tasks[i]
         IN  IF err # <<>> THEN ToolRaise(err[1].type, err[1].str, s)
             ELSE ToolReturn([task_id |-> task.id,
                              status |-> IF task.completed THEN "already_completed"
                                         ELSE "completed",
                              title |-> task.title],
                             Store([s.tasks EXCEPT ![i].completed = TRUE, ![i].updated_at = s.now],
                                   s.next_id, s.now + 1))

\* ORDER BY created_at DESC: the newest row first
RECURSIVE OrderByCreatedDesc(_)
OrderByCreatedDesc(rows) ==
    IF rows = <<>> THEN <<>>
    ELSE LET i == CHOOSE k \in 1..Len(rows) :
                     \A j \in 1..Len(rows) :
                         \/ rows[j].created_at < rows[k].created_at
                         \/ (rows[j].created_at = rows[k].created_at /\ k <= j)
             rest == [j \in 1..(Len(rows) - 1) |-> IF j < i THEN rows[j] ELSE rows[j + 1]]
         IN  <<rows[i]>> \o OrderByCreatedDesc(rest)

\* AddTaskInput(...) then add_task
AddTask(s, db_ok, uid, title, description) ==
    IF Len(title) < 1 \/ Len(title) > TITLE_MAX_LENGTH \/ Len(description) > DESCRIPTION_MAX_LENGTH
    THEN ToolRaise("ValidationError", "validation error for AddTaskInput", s)
    ELSE IF ~db_ok THEN DatabaseDown(s)
    ELSE LET task == Task(s.next_id, uid, title, description, FALSE, s.now, s.now)
         IN  ToolReturn([task_id |-> task.id, status |-> "created", title |-> task.title],
                        Store(Append(s.tasks, task), s.next_id + 1, s.now + 1))

\* ListTasksInput(...) then list_tasks
ListTasks(s, db_ok, uid, status) ==
    IF status \notin {"all", "pending", "completed"}
    THEN ToolRaise("ValidationError", "validation error for ListTasksInput", s)
    ELSE IF ~db_ok THEN DatabaseDown(s)
    ELSE LET Selected(row) ==
                 /\ row.user_id = uid
                 /\ status = "pending" => ~row.completed
                 /\ status = "completed" => row.completed
             found == OrderByCreatedDesc(SelectSeq(s.tasks, Selected))
             task_items == [i \in 1..Len(found) |-> TaskItem(found[i])]
         IN  ToolReturn([tasks |-> task_items, count |-> Len(task_items),
                         filter_applied |-> status], s)

\* CompleteTaskInput(...) then complete_task
CompleteTask(s, db_ok, uid, task_id) ==
    IF ~db_ok THEN DatabaseDown(s)
    ELSE LET err == GetTaskError(s.tasks, uid, task_id)
             i == RowOf(s.tasks, task_id)
             task == s.tasks[i]
         IN  IF err # <<>> THEN ToolRaise(err[1].type, err[1].str, s)
             ELSE IF task.completed
             THEN ToolReturn([task_id |-> task.id, status |-> "already_completed",
                              title |-> task.title], s)
             ELSE ToolReturn([task_id |-> task.id, status |-> "completed", title |-> task.title],
                             Store([s.tasks EXCEPT ![i].completed = TRUE, ![i].updated_at = s.now],
                                   s.next_id, s.now + 1))

\* DeleteTaskInput(...) then delete_task
DeleteTask(s, db_ok, uid, task_id) ==
    IF ~db_ok THEN DatabaseDown(s)
    ELSE LET err == GetTaskError(s.tasks, uid, task_id)
             i == RowOf(s.tasks, task_id)
             task == s.tasks[i]
             rest == [j \in 1..(Len(s.tasks) - 1) |->
                         IF j < i THEN s.tasks[j] ELSE s.tasks[j + 1]]
         IN  IF err # <<>> THEN ToolRaise(err[1].type, err[1].str, s)
             ELSE ToolReturn([task_id |-> task.id, status |-> "deleted", title |-> task.title],
                             Store(rest, s.next_id, s.now))

\* UpdateTaskInput(...) then update_task; title, description and completed
\* are Optional
UpdateTask(s, db_ok, uid, task_id, title, description, completed) ==
    IF \/ (title # None /\ Len(title[1]) > TITLE_MAX_LENGTH)
       \/ (description # None /\ Len(description[1]) > DESCRIPTION_MAX_LENGTH)
    THEN ToolRaise("ValidationError", "validation error for UpdateTaskInput", s)
    ELSE IF ~db_ok THEN DatabaseDown(s)
    ELSE LET err == GetTaskError(s.tasks, uid, task_id)
             i == RowOf(s.tasks, task_id)
             task == s.tasks[i]
             changes == (IF title # None THEN <<"title">> ELSE <<>>) \o
                        (IF description # None THEN <<"description">> ELSE <<>>) \o
                        (IF completed # None THEN <<"completed">> ELSE <<>>)
             updated == [task EXCEPT
                            !.title = IF title # None THEN title[1] ELSE @,
                            !.description = IF description # None THEN description[1] ELSE @,
                            !.completed = IF completed # None THEN completed[1] ELSE @,
                            !.updated_at = IF changes # <<>> THEN s.now ELSE @]
         IN  IF err # <<>> THEN ToolRaise(err[1].type, err[1].str, s)
             ELSE ToolReturn([task_id |-> task.id, status |-> "updated",
                              title |-> updated.title, changes |-> changes],
                             Store([s.tasks EXCEPT ![i] = updated], s.next_id,
                                   IF changes # <<>> THEN s.now + 1 ELSE s.now))

(***************************************************************************)
(* routes/tasks.py: the REST routes of the tasks table                     *)
(***************************************************************************)
\* what a route makes of a request: the HTTP status, the body of the
\* response and the store it leaves
RouteResult(status, body, s) == [status |-> status, body |-> body, store |-> s]

HTTP_200_OK == 200
HTTP_201_CREATED == 201
HTTP_404_NOT_FOUND == 404
HTTP_422_UNPROCESSABLE_ENTITY == 422

\* schemas.TaskResponse, from_attributes of the row
TaskResponse(row) ==
    [id |-> row.id, user_id |-> row.user_id, title |-> row.title,
     description |-> row.description, completed |-> row.completed,
     created_at |-> row.created_at, updated_at |-> row.updated_at]

\* raise HTTPException(status_code=404, detail="Task not found")
NotFound(s) == RouteResult(HTTP_404_NOT_FOUND, [detail |-> "Task not found"], s)

\* the response of FastAPI to a body that TaskCreate or TaskUpdate rejects
Unprocessable(s) == RouteResult(HTTP_422_UNPROCESSABLE_ENTITY, [detail |-> "validation error"], s)

\* select(Task).where(Task.id == task_id) with no test of the owner
SelectTaskOfAnyUser(rows, uid, task_id) == RowOf(rows, task_id)

\* select(Task).where(Task.id == task_id, Task.user_id == user_id), then
\* .first(): the position of the row, 0 when there is none
SelectTask(rows, uid, task_id) ==
    IF \E i \in 1..Len(rows) : rows[i].id = task_id /\ rows[i].user_id = uid
    THEN CHOOSE i \in 1..Len(rows) : rows[i].id = task_id /\ rows[i].user_id = uid
    ELSE 0

\* the rows of one user
RowsOfUser(rows, uid) == SelectSeq(rows, LAMBDA row : row.user_id = uid)

TaskResponses(rows) == [k \in 1..Len(rows) |-> TaskResponse(rows[k])]

\* GET /api/tasks
RouteListTasks(s, uid) ==
    RouteResult(HTTP_200_OK, TaskResponses(OrderByCreatedDesc(RowsOfUser(s.tasks, uid))), s)

\* POST /api/tasks with a TaskCreate body
RouteCreateTask(s, uid, title, description) ==
    IF Len(title) < 1 \/ Len(title) > TITLE_MAX_LENGTH \/ Len(description) > DESCRIPTION_MAX_LENGTH
    THEN Unprocessable(s)
    ELSE RouteResult(HTTP_201_CREATED,
                     TaskResponse(Task(s.next_id, uid, title, description, FALSE, s.now, s.now)),
                     Store(Append(s.tasks,
                                  Task(s.next_id, uid, title, description, FALSE, s.now, s.now)),
                           s.next_id + 1, s.now + 1))

\* the end of get_task: i is what the statement found
GetFound(s, i) ==
    IF i = 0 THEN NotFound(s) ELSE RouteResult(HTTP_200_OK, TaskResponse(s.tasks[i]), s)

\* GET /api/tasks/{task_id}
RouteGetTask(s, uid, task_id) == GetFound(s, SelectTask(s.tasks, uid, task_id))

\* the row of update_task after the assignments
UpdatedRow(task, title, description, now) ==
    [task EXCEPT !.title = IF title # None THEN title[1] ELSE @,
                 !.description = IF description # None THEN description[1] ELSE @,
                 !.updated_at = now]

\* the end of update_task: i is what the statement found
UpdateFound(s, i, title, description) ==
    IF i = 0 THEN NotFound(s)
    ELSE RouteResult(HTTP_200_OK,
                     TaskResponse(UpdatedRow(s.tasks[i], title, description, s.now)),
                     Store([s.tasks EXCEPT ![i] = UpdatedRow(s.tasks[i], title, description, s.now)],
                           s.next_id, s.now + 1))

\* PUT /api/tasks/{task_id} with a TaskUpdate body: title and description
\* are Optional
RouteUpdateTask(s, uid, task_id, title, description) ==
    IF \/ (title # None /\ (Len(title[1]) < 1 \/ Len(title[1]) > TITLE_MAX_LENGTH))
       \/ (description # None /\ Len(description[1]) > DESCRIPTION_MAX_LENGTH)
    THEN Unprocessable(s)
    ELSE UpdateFound(s, SelectTask(s.tasks, uid, task_id), title, description)

\* the rows without the row at position i
WithoutRow(rows, i) ==
    [j \in 1..(Len(rows) - 1) |-> IF j < i THEN rows[j] ELSE rows[j + 1]]

\* the end of delete_task: i is what the statement found
DeleteFound(s, i) ==
    IF i = 0 THEN NotFound(s)
    ELSE RouteResult(HTTP_200_OK, [message |-> "Task deleted successfully"],
                     Store(WithoutRow(s.tasks, i), s.next_id, s.now))

\* DELETE /api/tasks/{task_id}
RouteDeleteTask(s, uid, task_id) == DeleteFound(s, SelectTask(s.tasks, uid, task_id))

\* the row of toggle_task_complete after the assignments
ToggledRow(task, now) == [task EXCEPT !.completed = ~@, !.updated_at = now]

\* the end of toggle_task_complete: i is what the statement found
ToggleFound(s, i) ==
    IF i = 0 THEN NotFound(s)
    ELSE RouteResult(HTTP_200_OK, TaskResponse(ToggledRow(s.tasks[i], s.now)),
                     Store([s.tasks EXCEPT ![i] = ToggledRow(s.tasks[i], s.now)],
                           s.next_id, s.now + 1))

\* PATCH /api/tasks/{task_id}/complete
RouteToggleTaskComplete(s, uid, task_id) ==
    ToggleFound(s, SelectTask(s.tasks, uid, task_id))

(***************************************************************************)
(* agents: the four rule-based agents                                      *)
(***************************************************************************)
\* AgentResult; error is an Optional[str]
AgentResult(success, message, error) ==
    [success |-> success, message |-> message, error |-> error]

\* what execute leaves behind: its AgentResult and the store
Executed(r, s) == [result |-> r, store |-> s]

\* the except clauses of the agents: a failure that carries the error message
Failure(error, s) == Executed(AgentResult(FALSE, ErrorMessage(error), Some(error.str)), s)

\* any(i in text for i in intents)
AnyIn(intents, text) == \E k \in 1..Len(intents) : Contains(text, intents[k])

COMPLETION_INTENTS ==
    <<"complete", "done", "finish", "finished", "check", "mark", "tick", "crossed">>
CREATE_INTENTS == <<"add", "create", "new", "make">>
UPDATE_INTENTS == <<"update", "edit", "change", "modify", "rename">>
DELETE_INTENTS == <<"delete", "remove", "cancel", "drop">>
QUERY_INTENTS ==
    <<"list", "show", "display", "get", "view", "see", "what", "how many", "count",
      "tasks", "todos", "pending", "completed", "done", "remaining">>
GREETING_INTENTS ==
    <<"hi", "hello", "hey", "greetings", "good morning", "good afternoon", "good evening">>
HELP_INTENTS == <<"help", "what can you do", "how do i", "how to", "capabilities">>

\* TaskReference objects of the TaskItems of a list_tasks result
TaskRefs(items) ==
    [i \in 1..Len(items) |-> TaskReference(items[i].id, items[i].title, items[i].completed)]

\* a task id resolved from the user's input: the Optional[int], or the
\* exception list_tasks raised
Resolution(raised, error, task_id) == [raised |-> raised, error |-> error, task_id |-> task_id]

\* resolve by name among the tasks list_tasks returns for `status`
ResolveListed(input, listed) ==
    IF listed.raised THEN Resolution(TRUE, listed.error, None)
    ELSE IF listed.out.tasks = <<>> THEN Resolution(FALSE, listed.error, None)
    ELSE Resolution(FALSE, listed.error,
                    ResolverExecute(input, TaskRefs(listed.out.tasks)).task_id)

ResolveAmong(s, db_ok, uid, input, status) ==
    ResolveListed(input, ListTasks(s, db_ok, uid, status))

\* CompletionAgent._resolve_task_id
CompletionResolveTaskId(s, db_ok, uid, input) ==
    ResolveAmong(s, db_ok, uid, input, "pending")

\* CRUDAgent._resolve_task_id
CrudResolveMatched(s, db_ok, uid, input, match) ==
    IF match.found THEN Resolution(FALSE, Exception("", ""), Some(ParseInt(match.group)))
    ELSE ResolveAmong(s, db_ok, uid, input, "all")

CrudResolveTaskId(s, db_ok, uid, input) ==
    CrudResolveMatched(s, db_ok, uid, input, Search(ID_PATTERNS[1], input))

\* `not task_id`
NoTaskId(task_id) == task_id = None \/ task_id = Some(0)

\* CompletionAgent.can_handle
CompletionCanHandle(intent) == AnyIn(COMPLETION_INTENTS, Lower(intent))

\* CompletionAgent.execute once complete_task has been called: done is what
\* the tool returned or raised
CompletionConfirm(s, done) ==
    IF done.raised THEN Failure(done.error, s)
    ELSE IF done.out.status = "already_completed"
    THEN Executed(AgentResult(TRUE,
             ConfirmAlreadyCompleted(TaskInfo(done.out.task_id, done.out.title, None, FALSE)),
             None), done.store)
    ELSE Executed(AgentResult(TRUE,
             ConfirmCompleted(TaskInfo(done.out.task_id, done.out.title, None, FALSE)),
             None), done.store)

\* CompletionAgent.execute once the task id has been looked for: r is what
\* _resolve_task_id returned or raised
CompletionResolved(s, db_ok, uid, r) ==
    IF r.raised THEN Failure(r.error, s)
    ELSE IF NoTaskId(r.task_id)
    THEN Executed(AgentResult(FALSE,
             "Which task would you like to mark as complete? Please specify the task ID or name.",
             Some("No task_id resolved")), s)
    ELSE CompletionConfirm(s, CompleteTask(s, db_ok, uid, r.task_id[1]))

\* CompletionAgent.execute
CompletionExecute(s, db_ok, uid, intent, input) ==
    CompletionResolved(s, db_ok, uid,
        IF input # "" THEN CompletionResolveTaskId(s, db_ok, uid, input)
        ELSE Resolution(FALSE, Exception("", ""), None))

\* CRUDAgent.can_handle
CrudCanHandle(intent) ==
    AnyIn(CREATE_INTENTS \o UPDATE_INTENTS \o DELETE_INTENTS, Lower(intent))

\* CRUDAgent._handle_create once add_task has been called: added is what the
\* tool returned or raised
CreateConfirm(s, description, added) ==
    IF added.raised THEN Failure(added.error, s)
    ELSE Executed(AgentResult(TRUE,
             ConfirmCreated(TaskInfo(added.out.task_id, added.out.title, description, FALSE)),
             None), added.store)

\* CRUDAgent._handle_create with the title and the description it settled on
CreateTitled(s, db_ok, uid, title, description) ==
    IF title = ""
    THEN Executed(AgentResult(FALSE, "Please provide a title for the task.",
                              Some("No title provided")), s)
    ELSE CreateConfirm(s, description,
             AddTask(s, db_ok, uid, title, IF description # None THEN description[1] ELSE ""))

\* CRUDAgent._handle_create once the input has been parsed; the description
\* is `parsed.description or description`
CreateParsed(s, db_ok, uid, input, parsed) ==
    IF input # "" /\ ~parsed.has_title
    THEN Executed(AgentResult(FALSE,
             "I couldn't understand the task title. Could you please specify what task you want to add?",
             Some("No title parsed")), s)
    ELSE CreateTitled(s, db_ok, uid, parsed.title,
             IF parsed.description # None /\ parsed.description # Some("")
             THEN parsed.description ELSE None)

\* CRUDAgent._handle_create
HandleCreate(s, db_ok, uid, input) ==
    CreateParsed(s, db_ok, uid, input,
        IF input # "" THEN TaskParserExecute(input) ELSE ParsedTask("", None, FALSE))

\* CRUDAgent._handle_update: the orchestrator passes no title, description
\* or completed
UpdateConfirm(s, updated) ==
    IF updated.raised THEN Failure(updated.error, s)
    ELSE Executed(AgentResult(TRUE,
             ConfirmUpdated(TaskInfo(updated.out.task_id, updated.out.title, None, FALSE),
                            updated.out.changes),
             None), updated.store)

UpdateResolved(s, db_ok, uid, r) ==
    IF r.raised THEN Failure(r.error, s)
    ELSE IF NoTaskId(r.task_id)
    THEN Executed(AgentResult(FALSE,
             "Which task would you like to update? Please specify the task ID or name.",
             Some("No task_id provided")), s)
    ELSE UpdateConfirm(s, UpdateTask(s, db_ok, uid, r.task_id[1], None, None, None))

HandleUpdate(s, db_ok, uid, input) ==
    UpdateResolved(s, db_ok, uid,
        IF input # "" THEN CrudResolveTaskId(s, db_ok, uid, input)
        ELSE Resolution(FALSE, Exception("", ""), None))

\* CRUDAgent._handle_delete
DeleteConfirm(s, deleted) ==
    IF deleted.raised THEN Failure(deleted.error, s)
    ELSE Executed(AgentResult(TRUE,
             ConfirmDeleted(TaskInfo(deleted.out.task_id, deleted.out.title, None, FALSE)),
             None), deleted.store)

DeleteResolved(s, db_ok, uid, r) ==
    IF r.raised THEN Failure(r.error, s)
    ELSE IF NoTaskId(r.task_id)
    THEN Executed(AgentResult(FALSE,
             "Which task would you like to delete? Please specify the task ID or name.",
             Some("No task_id provided")), s)
    ELSE DeleteConfirm(s, DeleteTask(s, db_ok, uid, r.task_id[1]))

HandleDelete(s, db_ok, uid, input) ==
    DeleteResolved(s, db_ok, uid,
        IF input # "" THEN CrudResolveTaskId(s, db_ok, uid, input)
        ELSE Resolution(FALSE, Exception("", ""), None))

\* CRUDAgent.execute
CrudDispatch(s, db_ok, uid, intent_lower, input) ==
    IF AnyIn(CREATE_INTENTS, intent_lower) THEN HandleCreate(s, db_ok, uid, input)
    ELSE IF AnyIn(UPDATE_INTENTS, intent_lower) THEN HandleUpdate(s, db_ok, uid, input)
    ELSE IF AnyIn(DELETE_INTENTS, intent_lower) THEN HandleDelete(s, db_ok, uid, input)
    ELSE Executed(AgentResult(FALSE, "I'm not sure what operation you want to perform.",
                              Some("Unknown CRUD intent")), s)

CrudExecute(s, db_ok, uid, intent, input) == CrudDispatch(s, db_ok, uid, Lower(intent), input)

\* QueryAgent.can_handle
QueryCanHandle(intent) == AnyIn(QUERY_INTENTS, Lower(intent))

\* QueryAgent._format_task_list
FormatTaskList(items) ==
    Join([i \in 1..Len(items) |->
             (IF items[i].completed THEN "[x]" ELSE "[ ]") \o " " \o items[i].title \o
             (IF items[i].description # "" THEN " - " \o items[i].description ELSE "")],
         "\n")

\* the TaskInfo objects of the TaskItems of a list_tasks result
TaskInfos(items) ==
    [i \in 1..Len(items) |->
        TaskInfo(items[i].id, items[i].title, Some(items[i].description), items[i].completed)]

\* QueryAgent.execute
\* the response of QueryAgent.execute: the confirmation, then the list
QueryResponse(message, task_list) ==
    IF task_list # "" THEN message \o "\n\n" \o task_list ELSE message

\* QueryAgent.execute once list_tasks has been called: listed is what the
\* tool returned or raised
QueryListed(s, listed) ==
    IF listed.raised THEN Failure(listed.error, s)
    ELSE Executed(AgentResult(TRUE,
             QueryResponse(ConfirmListed(TaskInfos(listed.out.tasks), listed.out.filter_applied),
                           FormatTaskList(listed.out.tasks)),
             None), listed.store)

\* QueryAgent.execute
QueryExecute(s, db_ok, uid, intent, input) ==
    QueryListed(s, ListTasks(s, db_ok, uid, FilterMapperExecute(input).status))

\* ContextAgent.can_handle
ContextCanHandle(intent) ==
    AnyIn(GREETING_INTENTS, Lower(intent)) \/ AnyIn(HELP_INTENTS, Lower(intent))

\* ContextAgent._handle_greeting
GreetingMessage(listed) ==
    IF listed.raised THEN "Hello! How can I help you with your tasks today?"
    ELSE IF listed.out.count = 0
    THEN "Hello! You're all caught up - no pending tasks. Would you like to add something new?"
    ELSE IF listed.out.count = 1
    THEN "Hello! You have 1 pending task. Would you like to see it or add more?"
    ELSE "Hello! You have " \o ToString(listed.out.count)
         \o " pending tasks. Would you like to see them?"

HandleGreeting(s, db_ok, uid) ==
    Executed(AgentResult(TRUE, GreetingMessage(ListTasks(s, db_ok, uid, "pending")), None), s)

\* the text of ContextAgent._handle_help
HELP_MESSAGE ==
    "I'm your task management assistant. Here's what I can help you with:\n\n" \o
    "**Adding Tasks**\n" \o
    "- \"Add a task to buy groceries\"\n" \o
    "- \"Create a new task called finish report\"\n" \o
    "- \"Remind me to call mom\"\n\n" \o
    "**Viewing Tasks**\n" \o
    "- \"Show my tasks\"\n" \o
    "- \"What's left to do?\" (pending tasks)\n" \o
    "- \"Show completed tasks\"\n\n" \o
    "**Completing Tasks**\n" \o
    "- \"Mark task 1 as done\"\n" \o
    "- \"Complete the groceries task\"\n" \o
    "- \"I finished the report\"\n\n" \o
    "**Updating Tasks**\n" \o
    "- \"Update task 1 title to new title\"\n" \o
    "- \"Change the description of task 2\"\n\n" \o
    "**Deleting Tasks**\n" \o
    "- \"Delete task 3\"\n" \o
    "- \"Remove the groceries task\"\n\n" \o
    "Just tell me what you'd like to do!"

\* ContextAgent.execute
ContextExecute(s, db_ok, uid, intent, input) ==
    IF AnyIn(GREETING_INTENTS, Lower(intent)) THEN HandleGreeting(s, db_ok, uid)
    ELSE IF AnyIn(HELP_INTENTS, Lower(intent))
    THEN Executed(AgentResult(TRUE, HELP_MESSAGE, None), s)
    ELSE Executed(AgentResult(TRUE,
             "I'm here to help with your tasks. You can ask me to add, list, complete, update, or delete tasks. What would you like to do?",
             None), s)

(***************************************************************************)
(* agents/orchestrator.py: Orchestrator                                    *)
(***************************************************************************)
\* the agents with the query agent ahead of the others
AGENTS_QueryFirst == <<"query_agent", "completion_agent", "crud_agent", "context_agent">>

\* self.agents: the names of the agents in priority order
AGENTS == <<"completion_agent", "crud_agent", "query_agent", "context_agent">>

\* agent.can_handle(intent)
CanHandle(agent, intent) ==
    CASE agent = "completion_agent" -> CompletionCanHandle(intent)
      [] agent = "crud_agent" -> CrudCanHandle(intent)
      [] agent = "query_agent" -> QueryCanHandle(intent)
      [] agent = "context_agent" -> ContextCanHandle(intent)

\* agent.execute(intent=intent, user_input=input, ...)
Execute(agent, s, db_ok, uid, intent, input) ==
    CASE agent = "completion_agent" -> CompletionExecute(s, db_ok, uid, intent, input)
      [] agent = "crud_agent" -> CrudExecute(s, db_ok, uid, intent, input)
      [] agent = "query_agent" -> QueryExecute(s, db_ok, uid, intent, input)
      [] agent = "context_agent" -> ContextExecute(s, db_ok, uid, intent, input)

\* what process hands back: an OrchestrationResult it returns, or an
\* exception that leaves it (raised)
OrchestrationResult(response, agent_used, success) ==
    [raised |-> FALSE, response |-> response, agent_used |-> agent_used, success |-> success]

\* process without its except clause: the exception leaves it
Propagated(error) ==
    [raised |-> TRUE, response |-> error.str, agent_used |-> None, success |-> FALSE]

\* the arguments of a tool call; what the call leaves out is None
ToolArguments(title, status, task_id) == [title |-> title, status |-> status, task_id |-> task_id]

\* a tool call of the model's reply: valid_json is whether json.loads accepts
\* its arguments
ToolCall(name, valid_json, arguments) ==
    [name |-> name, valid_json |-> valid_json, arguments |-> arguments]

\* MCPTools.execute_tool
ExecuteTool(s, db_ok, uid, tool_name, arguments) ==
    CASE tool_name = "add_task" ->
            AddTask(s, db_ok, uid,
                    IF arguments.title # None THEN arguments.title[1] ELSE "", "")
      [] tool_name = "list_tasks" ->
            ListTasks(s, db_ok, uid,
                      IF arguments.status # None THEN arguments.status[1] ELSE "all")
      [] tool_name \in {"complete_task", "delete_task", "update_task"} /\ arguments.task_id = None ->
            ToolRaise("ValidationError", "task_id: Input should be a valid integer", s)
      [] tool_name = "complete_task" /\ arguments.task_id # None ->
            CompleteTask(s, db_ok, uid, arguments.task_id[1])
      [] tool_name = "delete_task" /\ arguments.task_id # None ->
            DeleteTask(s, db_ok, uid, arguments.task_id[1])
      [] tool_name = "update_task" /\ arguments.task_id # None ->
            UpdateTask(s, db_ok, uid, arguments.task_id[1], arguments.title, None, None)
      [] OTHER -> ToolRaise("ValueError", "Unknown tool: " \o tool_name, s)

\* Orchestrator._format_tool_result
FormatToolResult(tool_name, out) ==
    CASE tool_name = "add_task" -> ConfirmCreated(TaskInfo(out.task_id, out.title, None, FALSE))
      [] tool_name = "list_tasks" ->
            ConfirmListed(TaskInfos(out.tasks), out.filter_applied) \o
            (IF out.tasks # <<>>
             THEN "\n\n" \o Join([i \in 1..Len(out.tasks) |->
                                     (IF out.tasks[i].completed THEN "[x]" ELSE "[ ]")
                                     \o " " \o out.tasks[i].title], "\n")
             ELSE "")
      [] tool_name = "complete_task" ->
            IF out.status = "already_completed"
            THEN ConfirmAlreadyCompleted(TaskInfo(out.task_id, out.title, None, FALSE))
            ELSE ConfirmCompleted(TaskInfo(out.task_id, out.title, None, FALSE))
      [] tool_name = "delete_task" -> ConfirmDeleted(TaskInfo(out.task_id, out.title, None, FALSE))
      [] tool_name = "update_task" ->
            ConfirmUpdated(TaskInfo(out.task_id, out.title, None, FALSE), out.changes)
      [] OTHER -> "Completed " \o tool_name \o " operation."

\* the text one tool call adds to the response: its formatted result, or the
\* message of the exception it raised
ToolResultLine(tool_name, call) ==
    IF call.raised THEN ErrorMessage(call.error) ELSE FormatToolResult(tool_name, call.out)

\* the loop of Orchestrator._handle_tool_calls over tool_calls[k..]: the
\* results so far and the store; json.loads is outside the loop's try
RECURSIVE HandleToolCallsFrom(_, _, _, _, _, _)
HandleToolCallsFrom(s, db_ok, uid, tool_calls, k, results) ==
    IF k > Len(tool_calls)
    THEN [raised |-> FALSE, error |-> Exception("", ""), results |-> results, store |-> s]
    ELSE IF ~tool_calls[k].valid_json
    THEN [raised |-> TRUE, error |-> Exception("JSONDecodeError", "Expecting value"),
          results |-> results, store |-> s]
    ELSE LET call == ExecuteTool(s, db_ok, uid, tool_calls[k].name, tool_calls[k].arguments)
         IN  HandleToolCallsFrom(call.store, db_ok, uid, tool_calls, k + 1,
                 Append(results, ToolResultLine(tool_calls[k].name, call)))

(***************************************************************************)
(* The inputs the skills are called with                                   *)
(***************************************************************************)
\* the texts of at most n words of `words`, joined by single spaces
RECURSIVE TextsOf(_, _)
TextsOf(words, n) ==
    IF n = 0 THEN {""}
    ELSE LET shorter == TextsOf(words, n - 1)
         IN  shorter \cup words \cup {t \o " " \o w : t \in shorter \ {""}, w \in words}

\* the sequences without repetition of at most n elements of pool
RECURSIVE ListsOf(_, _)
ListsOf(pool, n) ==
    IF n = 0 THEN {<<>>}
    ELSE LET shorter == ListsOf(pool, n - 1)
         IN  shorter \cup {Append(l, x) : l \in shorter, x \in pool}

NoRepeat(l) == \A i, j \in 1..Len(l) : i # j => l[i].id # l[j].id

MaxResolverWords == 2
MaxCandidates == 2
MaxFilterWords == 2

ResolverWords == {"2", "5", "2nd", "second", "fifth", "latest", "Buy", "milk"}

\* texts that str.strip() and the whitespace of the patterns act on
ResolverEdgeTexts == {" ", "  task 5\t", "id: 3", "number-2", "walk the dog",
                      "most recent", "item#5 first", "Third one",
                      "task 9 buy milk", "task 999"}

ResolverTexts == TextsOf(ResolverWords, MaxResolverWords) \cup ResolverEdgeTexts

\* the tasks a candidate list is drawn from: ids are primary keys, so distinct
TaskPool == {
    TaskReference(5, "Buy milk", FALSE),
    TaskReference(3, "Call dentist", TRUE),
    TaskReference(2, "Buy groceries", FALSE),
    TaskReference(1, "Walk the dog", FALSE) }

CandidateLists == {l \in ListsOf(TaskPool, MaxCandidates) : NoRepeat(l)}

FilterWords == {"all", "everything", "completed", "done", "finished", "pending",
                "not", "left", "to-do", "open", "show", "tasks", "Done", "what's"}

FilterEdgeTexts == {" ", " \t ", "  all ", "full list", "what have i done",
                    "marked as complete", "undone opened wall"}

FilterTexts == TextsOf(FilterWords, MaxFilterWords) \cup FilterEdgeTexts

MaxParserWords == 2

ParserWords == {"add", "task", "todo:", "please", "buy", "milk", "-", "note", "\"x\"",
                "(soon)", "called"}

\* blank texts, texts the clean-up empties, quoted titles, and the examples
\* of the docstring of TaskParserSkill
ParserEdgeTexts == {" ", " \t ", "task: - ", "\" a \"", "''", "' '", "  Add task , ",
                    "add a task to buy groceries",
                    "create task: call mom",
                    "remind me to pay bills",
                    "add buy milk with description get 2% milk",
                    "add call mom with description at noon",
                    "buy milk (get 2% milk)",
                    "buy milk - get 2% milk",
                    "buy milk - note 2%",
                    "call mom - today (soon)",
                    "new item called 'x y' - soon"}

ParserTexts == TextsOf(ParserWords, MaxParserWords) \cup ParserEdgeTexts

MaxRequests == 2
MaxApiTaskId == 4

\* the task ids a request names: those of the rows and one past them
ApiTaskIds == 1..MaxApiTaskId

\* a tasks table with rows of both users, one of them completed
ApiSeededStore ==
    Store(<<Task(1, "alice", "Buy milk", "", FALSE, 1, 1),
            Task(2, "alice", "Call dentist", "today", TRUE, 2, 3),
            Task(3, "bob", "Walk the dog", "", FALSE, 4, 4)>>, 4, 5)

\* the titles of the bodies: the empty one is rejected
ApiTitles == {"", "Buy bread"}
ApiNewTitles == {None, Some(""), Some("Call mom")}
ApiNewDescriptions == {None, Some("soon")}
ApiStatuses == {"all", "pending", "completed", "archived"}

MaxHistory == 22

\* conversations: entry i of each, with its role and its content
HistoryScripts == {"alternating", "assistant", "user", "repeating", "mixed"}

MixedContents == <<"Showing tasks 4 and 5", "I said 7 times", "ID:  #\t12 added",
                   "TASK9 and task 3 are done", "Nothing to report">>

MixedRoles == <<"assistant", "user", "system">>

HistoryEntry(script, i) ==
    CASE script = "alternating" ->
            IF i % 2 = 1 THEN MessageContext("user", "complete task " \o ToString(i))
            ELSE MessageContext("assistant",
                                "Nice work! Task " \o ToString(i - 1) \o " is now complete.")
      [] script = "assistant" ->
            MessageContext("assistant", "I've updated task #" \o ToString(i) \o
                                        " (id: " \o ToString(i + 1) \o ")")
      [] script = "user" ->
            MessageContext("user", "delete task " \o ToString(i))
      [] script = "repeating" ->
            MessageContext("assistant", "Deleted task " \o ToString(i % 3))
      [] script = "mixed" ->
            MessageContext(MixedRoles[(i % 3) + 1], MixedContents[(i % 5) + 1])

\* the first n entries of a conversation
History(script, n) == [i \in 1..n |-> HistoryEntry(script, i)]

ContextCalls ==
    {ContextCall(History(script, n), message, include_system_prompt) :
        script \in HistoryScripts, n \in 0..MaxHistory,
        message \in {"what's next?", "delete task 2"},
        include_system_prompt \in BOOLEAN}

MaxErrorTaskId == 2

\* the exceptions of the task tools and of the libraries under them
Exceptions ==
    {Exception("TaskNotFoundError", "Task with ID " \o ToString(n) \o " not found") :
        n \in 1..MaxErrorTaskId}
    \cup {Exception("UnauthorizedError",
                     "User bob does not own task " \o ToString(n)) : n \in 1..MaxErrorTaskId}
    \cup {Exception("TaskNotFoundError", "no such task"),
          Exception("ValidationError", "title: ensure this value has at least 1 characters"),
          Exception("ValueError", "Invalid input"),
          Exception("DatabaseError", ""),
          Exception("OperationalError", "connection to server failed"),
          Exception("RuntimeError", "Something went wrong")}

ErrorTypeNames == {"", "TaskNotFoundError", "UnauthorizedError", "ValidationError",
                   "DatabaseError", "ValueError", "UnknownError", "RuntimeError"}

ErrorCalls ==
    {ErrorCall(error, error_type, context) :
        error \in {None} \cup {Some(e) : e \in Exceptions},
        error_type \in {None} \cup {Some(name) : name \in ErrorTypeNames},
        context \in {None, Some(""), Some("While deleting task")}}

MaxChanges == 3

\* the field names update_task reports, and the one of the tests
ChangeNames == {"title", "description", "completed", "status"}

NoRepeatNames(l) == \A i, j \in 1..Len(l) : i # j => l[i] # l[j]

ChangeLists == {l \in ListsOf(ChangeNames, MaxChanges) : NoRepeatNames(l)}

ComposerTasks == {
    TaskInfo(1, "Buy groceries", Some("Milk and eggs"), FALSE),
    TaskInfo(2, "Call dentist", None, TRUE),
    TaskInfo(3, "Fix the title", Some(""), FALSE) }

ComposerTaskLists == {l \in ListsOf(ComposerTasks, 2) : NoRepeat(l)}

\* the calls of execute: each action with the arguments it reads
ConfirmCalls ==
    {ConfirmCall(action, task, None, None, None) :
        action \in {"created", "completed", "already_completed", "deleted", "archived"},
        task \in {None} \cup {Some(t) : t \in ComposerTasks}}
    \cup {ConfirmCall("updated", task, None, changes, None) :
        task \in {None} \cup {Some(t) : t \in ComposerTasks},
        changes \in {None} \cup {Some(l) : l \in ChangeLists}}
    \cup {ConfirmCall("listed", None, infos, None, filter_applied) :
        infos \in {None} \cup {Some(l) : l \in ComposerTaskLists},
        filter_applied \in {None, Some("all"), Some("pending"), Some("completed")}}

(***************************************************************************)
(* The skills as state machines: a call is made with its arguments, then   *)
(* it returns                                                              *)
(***************************************************************************)
ResolverIdle ==
    /\ user_input = ""
    /\ tasks = <<>>
    /\ resolved = ResolvedNone
    /\ rpc = "idle"

FilterIdle ==
    /\ filter_input = ""
    /\ filter_params = FilterParams("all", Frac(1, 1))
    /\ fpc = "idle"

ParserIdle ==
    /\ parser_input = ""
    /\ parsed_task = ParsedTask("", None, FALSE)
    /\ ppc = "idle"

ComposerIdle ==
    /\ confirm_call = <<>>
    /\ confirmation = ""
    /\ cpc = "idle"

ErrorIdle ==
    /\ error_call = <<>>
    /\ handled_error = <<>>
    /\ epc = "idle"

ContextIdle ==
    /\ context_call = <<>>
    /\ built = <<>>
    /\ bpc = "idle"

ApiIdle ==
    /\ db = <<>>
    /\ api_call = <<>>
    /\ api_reply = <<>>
    /\ served = 0

ChatIdle ==
    /\ chat_messages = <<>>
    /\ chat_history = <<>>
    /\ llm_messages = <<>>

ConsoleIdle ==
    /\ console_tasks = <<>>
    /\ console_made = 0
    /\ console_call = <<>>
    /\ console_raised = None
    /\ console_calls = 0

ParserInit ==
    /\ parser_input \in ParserTexts
    /\ parsed_task = ParsedTask("", None, FALSE)
    /\ ppc = "call"

\* task_parser.execute(parser_input) returns
ParserReturn ==
    /\ ppc = "call"
    /\ parsed_task' = TaskParserExecute(parser_input)
    /\ ppc' = "done"
    /\ UNCHANGED parser_input

ComposerInit ==
    /\ confirm_call \in ConfirmCalls
    /\ confirmation = ""
    /\ cpc = "call"

\* confirmation_generator.execute(**confirm_call) returns
ComposerReturn ==
    /\ cpc = "call"
    /\ confirmation' = ConfirmationExecute(confirm_call)
    /\ cpc' = "done"
    /\ UNCHANGED confirm_call

ErrorInit ==
    /\ error_call \in ErrorCalls
    /\ handled_error = <<>>
    /\ epc = "call"

\* error_handler.execute(**error_call) returns
ErrorReturn ==
    /\ epc = "call"
    /\ handled_error' = ErrorHandlerCall(error_call)
    /\ epc' = "done"
    /\ UNCHANGED error_call

ContextInit ==
    /\ context_call \in ContextCalls
    /\ built = <<>>
    /\ bpc = "call"

\* context_builder.execute(**context_call) returns
ContextReturn ==
    /\ bpc = "call"
    /\ built' = ContextBuilderExecute(context_call)
    /\ bpc' = "done"
    /\ UNCHANGED context_call

ResolverInit ==
    /\ user_input \in ResolverTexts
    /\ tasks \in CandidateLists
    /\ resolved = ResolvedNone
    /\ rpc = "call"

\* id_resolver.execute(user_input, tasks) returns
ResolverReturn ==
    /\ rpc = "call"
    /\ resolved' = ResolverExecute(user_input, tasks)
    /\ rpc' = "done"
    /\ UNCHANGED <<user_input, tasks>>

FilterInit ==
    /\ filter_input \in FilterTexts
    /\ filter_params = FilterParams("all", Frac(1, 1))
    /\ fpc = "call"

\* filter_mapper.execute(filter_input) returns
FilterReturn ==
    /\ fpc = "call"
    /\ filter_params' = FilterMapperExecute(filter_input)
    /\ fpc' = "done"
    /\ UNCHANGED filter_input

(***************************************************************************)
(* The chat back end as a state machine: a user sends a message,           *)
(* Orchestrator.process routes it, the result goes back                    *)
(***************************************************************************)
MaxMessages == 2

Users == {"alice", "bob"}

Messages == {
    "", "  ", "mark task 3 as done", "mark task 9 as done", "mark task 2 as done",
    "Complete buy milk",
    "finish the new report", "check this", "add task", "add task buy bread - whole grain",
    "delete task 2", "remove 7", "update task 1", "show pending tasks", "hello",
    "help", "thanks" }

\* a database that holds tasks of both users, and an empty one
SeededStore ==
    Store(<<Task(1, "alice", "Buy milk", "", FALSE, 1, 1),
            Task(2, "alice", "Call dentist", "today", TRUE, 2, 3),
            Task(3, "alice", "Pay rent", "", FALSE, 4, 4),
            Task(4, "bob", "Walk the dog", "", FALSE, 5, 5)>>, 5, 6)

EmptyStore == Store(<<>>, 1, 1)

AddWaterPlants == ToolCall("add_task", TRUE, ToolArguments(Some("Water plants"), None, None))
AddUntitled == ToolCall("add_task", TRUE, ToolArguments(None, None, None))
ListCompleted == ToolCall("list_tasks", TRUE, ToolArguments(None, Some("completed"), None))
CompleteFirst == ToolCall("complete_task", TRUE, ToolArguments(None, None, Some(1)))
DeleteFourth == ToolCall("delete_task", TRUE, ToolArguments(None, None, Some(4)))
RenameThird == ToolCall("update_task", TRUE, ToolArguments(Some("Pay the rent"), None, Some(3)))
SendEmail == ToolCall("send_email", TRUE, ToolArguments(None, None, None))
Malformed == ToolCall("delete_task", FALSE, ToolArguments(None, None, None))

\* the tool calls a reply of the model carries
ToolCallLists == {
    <<AddWaterPlants>>, <<AddUntitled>>, <<ListCompleted>>, <<DeleteFourth>>, <<SendEmail>>,
    <<CompleteFirst, RenameThird>>, <<AddWaterPlants, Malformed>> }

\* what the call of the chat completions API comes to: no API key in the
\* environment, an exception of the client, a reply with text (content may be
\* None) or a reply with tool calls
LLMOutcome(kind, content, tool_calls) ==
    [kind |-> kind, content |-> content, tool_calls |-> tool_calls]

LLMOutcomes ==
    {LLMOutcome("no_api_key", None, <<>>), LLMOutcome("api_error", None, <<>>),
     LLMOutcome("text", None, <<>>),
     LLMOutcome("text", Some("You could start with the milk."), <<>>)}
    \cup {LLMOutcome("tool_calls", None, calls) : calls \in ToolCallLists}

NoResult == OrchestrationResult("", None, FALSE)

RouterIdle ==
    /\ store = EmptyStore
    /\ user_id = ""
    /\ user_message = ""
    /\ pc = "idle"
    /\ agent_idx = 1
    /\ executed = <<>>
    /\ fallback = FALSE
    /\ result = NoResult
    /\ handled = 0

RouterInit ==
    /\ store \in {SeededStore, EmptyStore}
    /\ user_id = ""
    /\ user_message = ""
    /\ pc = "idle"
    /\ agent_idx = 1
    /\ executed = <<>>
    /\ fallback = FALSE
    /\ result = NoResult
    /\ handled = 0

\* Orchestrator(uid).process(msg) is called: the guard of lines 91-95
Process(uid, msg) ==
    /\ pc = "idle"
    /\ handled < MaxMessages
    /\ user_id' = uid
    /\ user_message' = msg
    /\ handled' = handled + 1
    /\ executed' = <<>>
    /\ fallback' = FALSE
    /\ agent_idx' = 1
    /\ IF Strip(msg) = ""
       THEN /\ result' = OrchestrationResult(
                   "I didn't catch that. How can I help you with your tasks?", None, TRUE)
            /\ pc' = "done"
       ELSE /\ result' = NoResult
            /\ pc' = "routing"
    /\ UNCHANGED store

\* the except clause of _process_with_openai
OpenAIFailure(error) == OrchestrationResult(ErrorMessage(error), None, FALSE)

\* one turn of the loop of _try_rule_based_routing: the agent is probed and,
\* when it can handle the message, executed; db_ok is whether the database
\* answers during the turn
TryRuleBasedRouting(db_ok) ==
    /\ pc = "routing"
    /\ agent_idx <= Len(AGENTS)
    /\ IF CanHandle(AGENTS[agent_idx], Strip(Lower(user_message)))
       THEN \E e \in {Execute(AGENTS[agent_idx], store, db_ok, user_id,
                              Strip(Lower(user_message)), user_message)} :
                /\ store' = e.store
                /\ executed' = Append(executed, [agent |-> AGENTS[agent_idx], result |-> e.result])
                /\ IF e.result.success
                   THEN /\ result' = OrchestrationResult(e.result.message,
                                                         Some(AGENTS[agent_idx]), TRUE)
                        /\ pc' = "done"
                        /\ UNCHANGED agent_idx
                   ELSE /\ agent_idx' = agent_idx + 1
                        /\ UNCHANGED <<result, pc>>
       ELSE /\ agent_idx' = agent_idx + 1
            /\ UNCHANGED <<store, executed, result, pc>>
    /\ UNCHANGED <<user_id, user_message, fallback, handled>>

\* _try_rule_based_routing returns None: process goes on to _process_with_openai
RoutingReturnsNone ==
    /\ pc = "routing"
    /\ agent_idx > Len(AGENTS)
    /\ pc' = "openai"
    /\ UNCHANGED <<store, user_id, user_message, agent_idx, executed, fallback, result, handled>>

\* Orchestrator._process_with_openai (with _handle_tool_calls)
ProcessWithOpenAI(outcome, db_ok) ==
    /\ pc = "openai"
    /\ \E handling \in {HandleToolCallsFrom(store, db_ok, user_id, outcome.tool_calls, 1, <<>>)} :
           CASE outcome.kind = "no_api_key" ->
                   /\ result' = OpenAIFailure(Exception("ValueError",
                                    "OPENAI_API_KEY environment variable not set"))
                   /\ UNCHANGED store
             [] outcome.kind = "api_error" ->
                   /\ result' = OpenAIFailure(Exception("APIConnectionError", "Connection error."))
                   /\ UNCHANGED store
             [] outcome.kind = "text" ->
                   /\ result' = OrchestrationResult(
                          IF outcome.content # None /\ outcome.content # Some("")
                          THEN outcome.content[1] ELSE "I'm not sure how to help with that.",
                          Some("openai"), TRUE)
                   /\ UNCHANGED store
             [] outcome.kind = "tool_calls" ->
                   /\ result' = IF handling.raised THEN OpenAIFailure(handling.error)
                                ELSE OrchestrationResult(
                                         IF handling.results # <<>>
                                         THEN Join(handling.results, "\n")
                                         ELSE "Operation completed.",
                                         Some("openai"), TRUE)
                   /\ store' = handling.store
    /\ fallback' = TRUE
    /\ pc' = "done"
    /\ UNCHANGED <<user_id, user_message, agent_idx, executed, handled>>

\* process returns its result to the caller; the Orchestrator of the
\* request and what it held are gone
Return ==
    /\ pc = "done"
    /\ pc' = "idle"
    /\ user_id' = ""
    /\ user_message' = ""
    /\ agent_idx' = 1
    /\ executed' = <<>>
    /\ fallback' = FALSE
    /\ result' = NoResult
    /\ UNCHANGED <<store, handled>>

(***************************************************************************)
(* The REST routes and the task tools as a state machine: a request is     *)
(* served on the tasks table, the response goes back                       *)
(***************************************************************************)
\* a request: the route or the tool, the user, the task id (0 when the
\* request names none) and the other arguments
ApiCall(op, uid, task_id, args) ==
    [op |-> op, user_id |-> uid, task_id |-> task_id, args |-> args]

ApiInit ==
    /\ db \in {EmptyStore, ApiSeededStore}
    /\ api_call = ApiCall("", "", 0, <<>>)
    /\ api_reply = <<>>
    /\ served = 0

\* a route serves the request and the response goes back
Served(call, r) ==
    /\ served < MaxRequests
    /\ api_call' = call
    /\ api_reply' = [status |-> r.status, body |-> r.body]
    /\ db' = r.store
    /\ served' = served + 1

\* a tool serves the call: it returns or it raises
Called(call, r) ==
    /\ served < MaxRequests
    /\ api_call' = call
    /\ api_reply' = [raised |-> r.raised, error |-> r.error, out |-> r.out]
    /\ db' = r.store
    /\ served' = served + 1

ListRoute(uid) == Served(ApiCall("list", uid, 0, <<>>), RouteListTasks(db, uid))

CreateRoute(uid, title, description) ==
    Served(ApiCall("create", uid, 0, <<title, description>>),
           RouteCreateTask(db, uid, title, description))

GetRoute(uid, task_id) == Served(ApiCall("get", uid, task_id, <<>>), RouteGetTask(db, uid, task_id))

UpdateRoute(uid, task_id, title, description) ==
    Served(ApiCall("update", uid, task_id, <<title, description>>),
           RouteUpdateTask(db, uid, task_id, title, description))

DeleteRoute(uid, task_id) ==
    Served(ApiCall("delete", uid, task_id, <<>>), RouteDeleteTask(db, uid, task_id))

ToggleRoute(uid, task_id) ==
    Served(ApiCall("toggle", uid, task_id, <<>>), RouteToggleTaskComplete(db, uid, task_id))

AddTool(db_ok, uid, title, description) ==
    Called(ApiCall("add_task", uid, 0, <<title, description>>),
           AddTask(db, db_ok, uid, title, description))

ListTool(db_ok, uid, status) ==
    Called(ApiCall("list_tasks", uid, 0, <<status>>), ListTasks(db, db_ok, uid, status))

CompleteTool(db_ok, uid, task_id) ==
    Called(ApiCall("complete_task", uid, task_id, <<>>), CompleteTask(db, db_ok, uid, task_id))

DeleteTool(db_ok, uid, task_id) ==
    Called(ApiCall("delete_task", uid, task_id, <<>>), DeleteTask(db, db_ok, uid, task_id))

UpdateTool(db_ok, uid, task_id, title, description, completed) ==
    Called(ApiCall("update_task", uid, task_id, <<title, description, completed>>),
           UpdateTask(db, db_ok, uid, task_id, title, description, completed))

Init ==
    /\ RouterInit
    /\ ResolverIdle /\ FilterIdle /\ ParserIdle /\ ComposerIdle /\ ErrorIdle /\ ContextIdle
    /\ ApiIdle /\ ChatIdle /\ ConsoleIdle

\* what a message to the Orchestrator leaves alone
notRouterVars == <<resolverVars, filterVars, parserVars, composerVars, errorVars,
                   contextVars, apiVars, chatVars, consoleVars>>

Next ==
    \/ \E uid \in Users, msg \in Messages : Process(uid, msg) /\ UNCHANGED notRouterVars
    \/ \E db_ok \in BOOLEAN : TryRuleBasedRouting(db_ok) /\ UNCHANGED notRouterVars
    \/ RoutingReturnsNone /\ UNCHANGED notRouterVars
    \/ \E outcome \in LLMOutcomes, db_ok \in BOOLEAN :
           ProcessWithOpenAI(outcome, db_ok) /\ UNCHANGED notRouterVars
    \/ Return /\ UNCHANGED notRouterVars

Spec == Init /\ [][Next]_vars

SpecResolverInit ==
    /\ ResolverInit
    /\ FilterIdle /\ RouterIdle /\ ParserIdle /\ ComposerIdle /\ ErrorIdle /\ ContextIdle
    /\ ApiIdle /\ ChatIdle /\ ConsoleIdle
SpecResolverNext ==
    /\ ResolverReturn
    /\ UNCHANGED <<filterVars, routerVars, parserVars, composerVars, errorVars,
                   contextVars, apiVars, chatVars, consoleVars>>
SpecResolver == SpecResolverInit /\ [][SpecResolverNext]_vars

SpecFilterInit ==
    /\ FilterInit
    /\ ResolverIdle /\ RouterIdle /\ ParserIdle /\ ComposerIdle /\ ErrorIdle /\ ContextIdle
    /\ ApiIdle /\ ChatIdle /\ ConsoleIdle
SpecFilterNext ==
    /\ FilterReturn
    /\ UNCHANGED <<resolverVars, routerVars, parserVars, composerVars, errorVars,
                   contextVars, apiVars, chatVars, consoleVars>>
SpecFilter == SpecFilterInit /\ [][SpecFilterNext]_vars

SpecParserInit ==
    /\ ParserInit
    /\ ResolverIdle /\ FilterIdle /\ RouterIdle /\ ComposerIdle /\ ErrorIdle /\ ContextIdle
    /\ ApiIdle /\ ChatIdle /\ ConsoleIdle
SpecParserNext ==
    /\ ParserReturn
    /\ UNCHANGED <<resolverVars, filterVars, routerVars, composerVars, errorVars,
                   contextVars, apiVars, chatVars, consoleVars>>
SpecParser == SpecParserInit /\ [][SpecParserNext]_vars

SpecComposerInit ==
    /\ ComposerInit
    /\ ResolverIdle /\ FilterIdle /\ RouterIdle /\ ParserIdle /\ ErrorIdle /\ ContextIdle
    /\ ApiIdle /\ ChatIdle /\ ConsoleIdle
SpecComposerNext ==
    /\ ComposerReturn
    /\ UNCHANGED <<resolverVars, filterVars, routerVars, parserVars, errorVars,
                   contextVars, apiVars, chatVars, consoleVars>>
SpecComposer == SpecComposerInit /\ [][SpecComposerNext]_vars

SpecErrorInit ==
    /\ ErrorInit
    /\ ResolverIdle /\ FilterIdle /\ RouterIdle /\ ParserIdle /\ ComposerIdle /\ ContextIdle
    /\ ApiIdle /\ ChatIdle /\ ConsoleIdle
SpecErrorNext ==
    /\ ErrorReturn
    /\ UNCHANGED <<resolverVars, filterVars, routerVars, parserVars, composerVars,
                   contextVars, apiVars, chatVars, consoleVars>>
SpecError == SpecErrorInit /\ [][SpecErrorNext]_vars

SpecContextInit ==
    /\ ContextInit
    /\ ResolverIdle /\ FilterIdle /\ RouterIdle /\ ParserIdle /\ ComposerIdle /\ ErrorIdle
    /\ ApiIdle /\ ChatIdle /\ ConsoleIdle
SpecContextNext ==
    /\ ContextReturn
    /\ UNCHANGED <<resolverVars, filterVars, routerVars, parserVars, composerVars,
                   errorVars, apiVars, chatVars, consoleVars>>
SpecContext == SpecContextInit /\ [][SpecContextNext]_vars

\* what a request to the routes or a call of a tool leaves alone
notApiVars == <<resolverVars, filterVars, routerVars, parserVars, composerVars, errorVars,
                contextVars, chatVars, consoleVars>>

SpecTasksInit ==
    /\ ApiInit
    /\ ResolverIdle /\ FilterIdle /\ RouterIdle /\ ParserIdle /\ ComposerIdle /\ ErrorIdle
    /\ ContextIdle /\ ChatIdle /\ ConsoleIdle
SpecTasksNext ==
    \/ \E uid \in Users : ListRoute(uid) /\ UNCHANGED notApiVars
    \/ \E uid \in Users, title \in ApiTitles :
           CreateRoute(uid, title, "") /\ UNCHANGED notApiVars
    \/ \E uid \in Users, task_id \in ApiTaskIds : GetRoute(uid, task_id) /\ UNCHANGED notApiVars
    \/ \E uid \in Users, task_id \in ApiTaskIds, title \in ApiNewTitles,
          description \in ApiNewDescriptions :
           UpdateRoute(uid, task_id, title, description) /\ UNCHANGED notApiVars
    \/ \E uid \in Users, task_id \in ApiTaskIds :
           DeleteRoute(uid, task_id) /\ UNCHANGED notApiVars
    \/ \E uid \in Users, task_id \in ApiTaskIds :
           ToggleRoute(uid, task_id) /\ UNCHANGED notApiVars
    \/ \E db_ok \in BOOLEAN, uid \in Users, title \in ApiTitles :
           AddTool(db_ok, uid, title, "") /\ UNCHANGED notApiVars
    \/ \E db_ok \in BOOLEAN, uid \in Users, status \in ApiStatuses :
           ListTool(db_ok, uid, status) /\ UNCHANGED notApiVars
    \/ \E db_ok \in BOOLEAN, uid \in Users, task_id \in ApiTaskIds :
           CompleteTool(db_ok, uid, task_id) /\ UNCHANGED notApiVars
    \/ \E db_ok \in BOOLEAN, uid \in Users, task_id \in ApiTaskIds :
           DeleteTool(db_ok, uid, task_id) /\ UNCHANGED notApiVars
    \/ \E db_ok \in BOOLEAN, uid \in Users, task_id \in ApiTaskIds,
          title \in ApiNewTitles \ {Some("")}, completed \in {None, Some(TRUE), Some(FALSE)} :
           UpdateTool(db_ok, uid, task_id, title, None, completed) /\ UNCHANGED notApiVars
SpecTasks == SpecTasksInit /\ [][SpecTasksNext]_vars

(***************************************************************************)
(* routes/chat.py: the chat endpoint on one conversation of one user.  The *)
(* request saves the user's message, loads the history, runs               *)
(* Orchestrator.process and saves the answer                               *)
(***************************************************************************)
\* _load_conversation_history: the rows of the conversation in the order of
\* created_at, those of role user or assistant
LoadConversationHistory(rows) ==
    SelectSeq(rows, LAMBDA m : m.role \in {"user", "assistant"})

\* the user the conversation belongs to
ChatUser == "alice"

\* the rows a conversation holds when a request arrives: none, an exchange
\* after a system row, and a long exchange
ChatConversations ==
    {<<>>,
     <<MessageContext("system", "Conversation started"),
       MessageContext("user", "hello"),
       MessageContext("assistant", "Hello! How can I help you with your tasks?")>>,
     History("alternating", MAX_HISTORY_MESSAGES - 1)}

\* the messages the chat requests carry, and what the chat completions API
\* answers to them
ChatTexts == {"hello", "thanks", "show pending tasks", "mark task 3 as done"}

ChatOutcomes ==
    {LLMOutcome("no_api_key", None, <<>>), LLMOutcome("api_error", None, <<>>),
     LLMOutcome("text", Some("You could start with the milk."), <<>>),
     LLMOutcome("tool_calls", None, <<ListCompleted>>)}

ChatInit ==
    /\ chat_messages \in ChatConversations
    /\ chat_history = <<>>
    /\ llm_messages = <<>>

\* chat, lines 108-128: the message is saved, the history is loaded and
\* Orchestrator(user_id).process(request.message, history) is called;
\* ChatRequest.message has at least one character
ChatSave(msg) ==
    /\ msg # ""
    /\ Process(ChatUser, msg)
    /\ chat_messages' = Append(chat_messages, MessageContext("user", msg))
    /\ chat_history' = LoadConversationHistory(Append(chat_messages, MessageContext("user", msg)))
    /\ llm_messages' = <<>>

\* _process_with_openai builds the context from the history and the message
\* and hands built_context.messages to the chat completions API; without an
\* API key the client cannot be made and nothing is handed over
ChatProcessWithOpenAI(outcome, db_ok) ==
    /\ ProcessWithOpenAI(outcome, db_ok)
    /\ llm_messages' =
           IF outcome.kind = "no_api_key" THEN <<>>
           ELSE ContextBuilderExecute(ContextCall(chat_history, user_message, TRUE)).messages
    /\ UNCHANGED <<chat_messages, chat_history>>

\* chat, lines 130-150: process has returned and the answer is saved
ChatRespond ==
    /\ Return
    /\ chat_messages' = Append(chat_messages, MessageContext("assistant", result.response))
    /\ UNCHANGED <<chat_history, llm_messages>>

\* what a chat request leaves alone
notChatVars == <<resolverVars, filterVars, parserVars, composerVars, errorVars,
                 contextVars, apiVars, consoleVars>>

SpecChatInit ==
    /\ RouterInit /\ ChatInit
    /\ ResolverIdle /\ FilterIdle /\ ParserIdle /\ ComposerIdle /\ ErrorIdle /\ ContextIdle
    /\ ApiIdle /\ ConsoleIdle
SpecChatNext ==
    \/ \E msg \in ChatTexts : ChatSave(msg) /\ UNCHANGED notChatVars
    \/ \E db_ok \in BOOLEAN : TryRuleBasedRouting(db_ok) /\ UNCHANGED notRouterVars
    \/ RoutingReturnsNone /\ UNCHANGED notRouterVars
    \/ \E outcome \in ChatOutcomes, db_ok \in BOOLEAN :
           ChatProcessWithOpenAI(outcome, db_ok) /\ UNCHANGED notChatVars
    \/ ChatRespond /\ UNCHANGED notChatVars
SpecChat == SpecChatInit /\ [][SpecChatNext]_vars

(***************************************************************************)
(* src/models.py and src/storage.py: the console application's Task, its   *)
(* validators and the in-memory TaskStorage, as a state machine            *)
(***************************************************************************)
\* a Task of the console application
ConsoleTask(id, title, description, completed, created_at) ==
    [id |-> id, title |-> title, description |-> description, completed |-> completed,
     created_at |-> created_at]

\* the longest title and the longest description the validators accept
TitleLimit == 100
DescriptionLimit == 500

\* what a validator returns or raises
Validated(value) == [raised |-> FALSE, error |-> Exception("", ""), value |-> value]
Invalid(message) == [raised |-> TRUE, error |-> Exception("ValidationError", message), value |-> ""]

\* validate_title once the title is stripped
ValidateStrippedTitle(title) ==
    IF title = "" THEN Invalid("Title cannot be empty")
    ELSE IF Len(title) > TitleLimit THEN Invalid("Title must be 100 characters or less")
    ELSE Validated(title)

ValidateTitle(title) == ValidateStrippedTitle(Strip(title))

\* validate_description once the description is stripped
ValidateStrippedDescription(description) ==
    IF Len(description) > DescriptionLimit
    THEN Invalid("Description must be 500 characters or less")
    ELSE Validated(description)

ValidateDescription(description) == ValidateStrippedDescription(Strip(description))

\* what a method of TaskStorage leaves: the list of tasks and the exception
\* it raised (None when it returned)
StorageOutcome(ts, raised) == [tasks |-> ts, raised |-> raised]

\* TaskNotFoundError(task_id)
ConsoleTaskNotFound(task_id) ==
    Some(Exception("TaskNotFoundError", "Task with ID " \o task_id \o " not found"))

\* TaskStorage.get_task_by_id: the position of the first task of that id,
\* 0 for None
RECURSIVE GetTaskByIdFrom(_, _, _)
GetTaskByIdFrom(ts, task_id, k) ==
    IF k > Len(ts) THEN 0
    ELSE IF ts[k].id = task_id THEN k
    ELSE GetTaskByIdFrom(ts, task_id, k + 1)

GetTaskById(ts, task_id) == GetTaskByIdFrom(ts, task_id, 1)

\* TaskStorage.add_task once both validators have run; id and now are what
\* uuid4() and datetime.now() give
AddValidated(ts, id, now, vtitle, vdescription) ==
    IF vtitle.raised THEN StorageOutcome(ts, Some(vtitle.error))
    ELSE IF vdescription.raised THEN StorageOutcome(ts, Some(vdescription.error))
    ELSE StorageOutcome(Append(ts, ConsoleTask(id, vtitle.value, vdescription.value, FALSE, now)),
                        None)

\* TaskStorage.add_task
StorageAddTask(ts, id, now, title, description) ==
    AddValidated(ts, id, now, ValidateTitle(title), ValidateDescription(description))

\* TaskStorage.update_task, lines 94-95: task.description = validate_description(description)
DescriptionValidated(ts, k, v) ==
    IF v.raised THEN StorageOutcome(ts, Some(v.error))
    ELSE StorageOutcome([ts EXCEPT ![k].description = v.value], None)

UpdateDescriptionAt(ts, k, description) ==
    IF description = None THEN StorageOutcome(ts, None)
    ELSE DescriptionValidated(ts, k, ValidateDescription(description[1]))

\* TaskStorage.update_task, lines 91-92: task.title = validate_title(title),
\* and then the description
TitleValidated(ts, k, v, description) ==
    IF v.raised THEN StorageOutcome(ts, Some(v.error))
    ELSE UpdateDescriptionAt([ts EXCEPT ![k].title = v.value], k, description)

\* TaskStorage.update_task once the task has been looked for
StorageUpdateFound(ts, k, task_id, title, description) ==
    IF k = 0 THEN StorageOutcome(ts, ConsoleTaskNotFound(task_id))
    ELSE IF title = None THEN UpdateDescriptionAt(ts, k, description)
    ELSE TitleValidated(ts, k, ValidateTitle(title[1]), description)

\* TaskStorage.update_task
StorageUpdateTask(ts, task_id, title, description) ==
    StorageUpdateFound(ts, GetTaskById(ts, task_id), task_id, title, description)

\* TaskStorage.delete_task once the task has been looked for: list.remove
\* takes out the first task equal to it, and ids are unique
StorageDeleteFound(ts, k, task_id) ==
    IF k = 0 THEN StorageOutcome(ts, ConsoleTaskNotFound(task_id))
    ELSE StorageOutcome(SubSeq(ts, 1, k - 1) \o SubSeq(ts, k + 1, Len(ts)), None)

StorageDeleteTask(ts, task_id) == StorageDeleteFound(ts, GetTaskById(ts, task_id), task_id)

\* TaskStorage.toggle_complete once the task has been looked for
StorageToggleFound(ts, k, task_id) ==
    IF k = 0 THEN StorageOutcome(ts, ConsoleTaskNotFound(task_id))
    ELSE StorageOutcome([ts EXCEPT ![k].completed = ~ts[k].completed], None)

StorageToggleComplete(ts, task_id) == StorageToggleFound(ts, GetTaskById(ts, task_id), task_id)

MaxConsoleCalls == 3

\* a text of n characters
RECURSIVE LongText(_)
LongText(n) ==
    IF n = 0 THEN "" ELSE IF n = 1 THEN "x"
    ELSE LongText(n \div 2) \o LongText(n - n \div 2)

ConsoleTitles == {"", "  ", "Buy milk", " Walk dog ", LongText(TitleLimit),
                  LongText(TitleLimit + 1)}

ConsoleDescriptions == {"", " 2% ", LongText(DescriptionLimit + 1)}

\* the id that the k-th uuid4() gives
Uuid(k) == "uuid-" \o ToString(k)

\* the ids a caller passes: those of the first tasks made, and one of no task
ConsoleTaskIds == {Uuid(1), Uuid(2), "no-such-id"}

\* a call of a method of TaskStorage
ConsoleCall(op, task_id, title, description) ==
    [op |-> op, task_id |-> task_id, title |-> title, description |-> description]

\* TaskStorage(): self._tasks = []
ConsoleInit ==
    /\ console_tasks = <<>>
    /\ console_made = 0
    /\ console_call = ConsoleCall("", "", None, None)
    /\ console_raised = None
    /\ console_calls = 0

\* a method has been called and has returned or raised
ConsoleCalled(call, outcome) ==
    /\ console_calls < MaxConsoleCalls
    /\ console_calls' = console_calls + 1
    /\ console_call' = call
    /\ console_tasks' = outcome.tasks
    /\ console_raised' = outcome.raised

\* storage.add_task(title, description): the Task is made, with its id,
\* only when both validators return
ConsoleAddTask(title, description) ==
    \E outcome \in {StorageAddTask(console_tasks, Uuid(console_made + 1), console_calls + 1,
                                   title, description)} :
        /\ ConsoleCalled(ConsoleCall("add_task", "", Some(title), Some(description)), outcome)
        /\ console_made' = IF outcome.raised = None THEN console_made + 1 ELSE console_made

ConsoleUpdateTask(task_id, title, description) ==
    /\ ConsoleCalled(ConsoleCall("update_task", task_id, title, description),
                     StorageUpdateTask(console_tasks, task_id, title, description))
    /\ UNCHANGED console_made

ConsoleDeleteTask(task_id) ==
    /\ ConsoleCalled(ConsoleCall("delete_task", task_id, None, None),
                     StorageDeleteTask(console_tasks, task_id))
    /\ UNCHANGED console_made

ConsoleToggleComplete(task_id) ==
    /\ ConsoleCalled(ConsoleCall("toggle_complete", task_id, None, None),
                     StorageToggleComplete(console_tasks, task_id))
    /\ UNCHANGED console_made

\* what a call of TaskStorage leaves alone
notConsoleVars == <<resolverVars, filterVars, routerVars, parserVars, composerVars,
                    errorVars, contextVars, apiVars, chatVars>>

\* None or Some(x) for the texts of a set
Optional(texts) == {None} \cup {Some(t) : t \in texts}

SpecConsoleInit ==
    /\ ConsoleInit
    /\ ResolverIdle /\ FilterIdle /\ RouterIdle /\ ParserIdle /\ ComposerIdle /\ ErrorIdle
    /\ ContextIdle /\ ApiIdle /\ ChatIdle
SpecConsoleNext ==
    \/ \E title \in ConsoleTitles, description \in ConsoleDescriptions :
           ConsoleAddTask(title, description) /\ UNCHANGED notConsoleVars
    \/ \E task_id \in ConsoleTaskIds, title \in Optional(ConsoleTitles),
          description \in Optional(ConsoleDescriptions) :
           ConsoleUpdateTask(task_id, title, description) /\ UNCHANGED notConsoleVars
    \/ \E task_id \in ConsoleTaskIds : ConsoleDeleteTask(task_id) /\ UNCHANGED notConsoleVars
    \/ \E task_id \in ConsoleTaskIds :
           ConsoleToggleComplete(task_id) /\ UNCHANGED notConsoleVars
SpecConsole == SpecConsoleInit /\ [][SpecConsoleNext]_vars

(***************************************************************************)
(* Properties of Orchestrator.process (Spec)                               *)
(***************************************************************************)
\* the text the agents are probed with
MessageLower == Strip(Lower(user_message))

\* the handler that the order completion > create/update/delete > query >
\* context/help puts first among those whose keyword set matches the text
HighestPriorityMatch(text) ==
    IF CompletionCanHandle(text) THEN "completion_agent"
    ELSE IF CrudCanHandle(text) THEN "crud_agent"
    ELSE IF QueryCanHandle(text) THEN "query_agent"
    ELSE IF ContextCanHandle(text) THEN "context_agent"
    ELSE "none"

\* a request is in progress or has just been answered
InRequest == pc \in {"routing", "openai", "done"}

\* C1: the first handler executed for a message is the highest-priority
\* handler whose keyword set matches it (and one is executed whenever some
\* keyword set matches, before routing gives up); when that handler reports
\* success no other handler and no fallback runs, and its message is
\* returned with agent_used naming it
C1_HighestPriorityHandlerAnswers ==
    /\ (InRequest /\ executed # <<>>) =>
          /\ executed[1].agent = HighestPriorityMatch(MessageLower)
          /\ executed[1].result.success =>
                /\ Len(executed) = 1
                /\ ~fallback
                /\ pc = "done"
                /\ result = OrchestrationResult(executed[1].result.message,
                                                Some(executed[1].agent), TRUE)
    /\ (pc \in {"openai", "done"} /\ MessageLower # ""
          /\ HighestPriorityMatch(MessageLower) # "none") => executed # <<>>

\* 'mark task 3 as done' matches the completion and the query keywords; the
\* completion handler alone ran, succeeded and is the agent of the result
C1_Witness ==
    /\ pc = "done"
    /\ user_message = "mark task 3 as done"
    /\ CompletionCanHandle(MessageLower) /\ QueryCanHandle(MessageLower)
    /\ Len(executed) = 1
    /\ executed[1].agent = "completion_agent"
    /\ executed[1].result.success
    /\ result.agent_used = Some("completion_agent")
    /\ result.response = "Nice work! \"Pay rent\" is now complete."

\* C2: once the first handler executed for a message has reported failure,
\* no other rule-based handler is executed for that message, and the answer
\* comes from the LLM fallback
C2_FailureGoesStraightToFallback ==
    (InRequest /\ executed # <<>> /\ ~executed[1].result.success) =>
        /\ Len(executed) = 1
        /\ pc = "done" => fallback

\* C7: process hands back an OrchestrationResult, never an exception, and
\* its response is a non-empty string
C7_ProcessAlwaysAnswers ==
    pc = "done" => (~result.raised /\ result.response # "")

\* the database failed under a handler and the LLM client could not be
\* built either: process still answered, with the error message
C7_Witness ==
    /\ pc = "done"
    /\ fallback
    /\ ~result.success
    /\ ~result.raised
    /\ \E k \in 1..Len(executed) :
           executed[k].result.error = Some("connection to server failed")
    /\ result.response = ErrorMessage(Exception("ValueError",
           "OPENAI_API_KEY environment variable not set"))

\* the handler results that report an unresolved task reference
IsUnresolved(r) ==
    /\ ~r.success
    /\ r.error \in {Some("No task_id resolved"), Some("No task_id provided")}

\* C8: when a handler executed for a message could not resolve the task
\* reference, the response process returns for that message is that
\* handler's clarifying question
C8_UnresolvedReturnsClarifyingQuestion ==
    \A k \in 1..Len(executed) :
        (pc = "done" /\ IsUnresolved(executed[k].result)
            /\ \A j \in 1..(k - 1) : ~IsUnresolved(executed[j].result)) =>
        result.response = executed[k].result.message

(***************************************************************************)
(* Properties of IDResolverSkill (SpecResolver)                            *)
(***************************************************************************)
\* the text the strategies of execute work on
ResolverText == Strip(Lower(user_input))

IsNumber(w) == w # "" /\ \A i \in 1..Len(w) : Ch(w, i) \in DigitSet

\* the text holds the number n as a word of its own
HasBareNumber(text, n) ==
    \E w \in SetOf(Split(text)) : IsNumber(w) /\ ParseInt(w) = n

\* C3: a result whose method is not "none" carries the id and the title of one
\* of the candidates passed in; task_id is None exactly when the method is
\* "none", which is the result for an empty text and for an empty candidate list.
C3_ResultNamesACandidate ==
    rpc = "done" =>
        /\ resolved.resolution_method # "none" =>
              \E j \in 1..Len(tasks) :
                  /\ resolved.task_id = Some(tasks[j].id)
                  /\ resolved.matched_title = Some(tasks[j].title)
        /\ (resolved.task_id = None) <=> (resolved.resolution_method = "none")
        /\ (user_input = "" \/ tasks = <<>>) => resolved = ResolvedNone

C3_Witness ==
    /\ rpc = "done"
    /\ Len(tasks) = 2
    /\ resolved.resolution_method = "exact_id"
    /\ resolved.task_id = Some(tasks[2].id)
    /\ resolved.matched_title = Some(tasks[2].title)

\* C4: when the candidate list is not empty and the text holds a bare number
\* equal to a candidate's id, the result is such a candidate, by exact_id with
\* confidence 1.0, whatever other words or numbers the text holds.
C4_BareNumberIsExactId ==
    (rpc = "done" /\ tasks # <<>>) =>
        \A j \in 1..Len(tasks) :
            HasBareNumber(ResolverText, tasks[j].id) =>
                /\ resolved.resolution_method = "exact_id"
                /\ resolved.confidence = Frac(1, 1)
                /\ \E k \in 1..Len(tasks) :
                      /\ HasBareNumber(ResolverText, tasks[k].id)
                      /\ resolved.task_id = Some(tasks[k].id)

\* the text names no task by number: none of its words is a number, and it
\* holds no "#"
NoNumericReference(text) ==
    /\ \A w \in SetOf(Split(text)) : ~IsNumber(w)
    /\ ~Contains(text, "#")

\* an ordinal keyword of the text whose index is within the candidate list
OrdinalInRange(text, ts, o) ==
    /\ Contains(text, ORDINALS[o][1])
    /\ (IF ORDINALS[o][2] = -1 THEN 1 ELSE ORDINALS[o][2] + 1) <= Len(ts)

OrdinalTarget(ts, o) == ts[IF ORDINALS[o][2] = -1 THEN 1 ELSE ORDINALS[o][2] + 1]

\* C5: a text that matches an ordinal keyword whose index is within the
\* candidate list resolves to candidates[index] (candidates[0] for last, latest,
\* newest, most recent).  Stated for the texts that name no task by number and
\* hold one ordinal keyword only, where the claim leaves no choice.
C5_OrdinalReturnsIndexed ==
    (rpc = "done" /\ tasks # <<>> /\ NoNumericReference(ResolverText)) =>
        \A o \in 1..Len(ORDINALS) :
            (/\ OrdinalInRange(ResolverText, tasks, o)
             /\ \A o2 \in 1..Len(ORDINALS) :
                   Contains(ResolverText, ORDINALS[o2][1]) => o2 = o)
            => resolved.task_id = Some(OrdinalTarget(tasks, o).id)

\* C6: a title_match result is the earliest candidate of the highest similarity
\* score, that score is at least 0.5 and is the result's confidence.
C6_TitleMatchIsFirstBest ==
    (rpc = "done" /\ resolved.resolution_method = "title_match") =>
        \E j \in 1..Len(tasks) :
            LET score == TitleScore(ResolverText, tasks[j])
            IN  /\ resolved.task_id = Some(tasks[j].id)
                /\ resolved.matched_title = Some(tasks[j].title)
                /\ resolved.confidence = score
                /\ FracLe(Frac(1, 2), score)
                /\ \A k \in 1..Len(tasks) : FracLe(TitleScore(ResolverText, tasks[k]), score)
                /\ \A k \in 1..(j - 1) : FracLt(TitleScore(ResolverText, tasks[k]), score)

\* two candidates share the highest score and the earlier one is returned
C6_Witness ==
    /\ rpc = "done"
    /\ resolved.resolution_method = "title_match"
    /\ Len(tasks) = 2
    /\ TitleScore(ResolverText, tasks[1]) = TitleScore(ResolverText, tasks[2])
    /\ resolved.task_id = Some(tasks[1].id)

(***************************************************************************)
(* Properties of FilterMapperSkill (SpecFilter)                            *)
(***************************************************************************)
FilterText == Strip(Lower(filter_input))

\* C9: an input that is empty or holds only whitespace gives status all with
\* confidence 1.0.
C9_BlankInputIsAllFullConfidence ==
    (fpc = "done" /\ Strip(filter_input) = "") =>
        filter_params = FilterParams("all", Frac(1, 1))

\* C10: for a non-empty input the first keyword class that matches, in the
\* order all, completed, pending, decides the result: (all, 0.95),
\* (completed, 0.9), (pending, 0.9), and (all, 0.7) when none matches; the
\* status is one of all, pending, completed.
C10_FirstMatchingClassWins ==
    (fpc = "done" /\ filter_input # "") =>
        /\ filter_params.status \in {"all", "pending", "completed"}
        /\ AnySearch(ALL_KEYWORDS, FilterText) =>
              filter_params = FilterParams("all", Frac(95, 100))
        /\ (~AnySearch(ALL_KEYWORDS, FilterText) /\ AnySearch(COMPLETED_KEYWORDS, FilterText)) =>
              filter_params = FilterParams("completed", Frac(9, 10))
        /\ (/\ ~AnySearch(ALL_KEYWORDS, FilterText)
            /\ ~AnySearch(COMPLETED_KEYWORDS, FilterText)
            /\ AnySearch(PENDING_KEYWORDS, FilterText)) =>
              filter_params = FilterParams("pending", Frac(9, 10))
        /\ (/\ ~AnySearch(ALL_KEYWORDS, FilterText)
            /\ ~AnySearch(COMPLETED_KEYWORDS, FilterText)
            /\ ~AnySearch(PENDING_KEYWORDS, FilterText)) =>
              filter_params = FilterParams("all", Frac(7, 10))

\* a text that matches an all keyword and a completed keyword resolves to all
C10_Witness ==
    /\ fpc = "done"
    /\ filter_input # ""
    /\ AnySearch(ALL_KEYWORDS, FilterText)
    /\ AnySearch(COMPLETED_KEYWORDS, FilterText)
    /\ filter_params = FilterParams("all", Frac(95, 100))


(***************************************************************************)
(* Claims about the task parser (SpecParser)                               *)
(***************************************************************************)
Blank(text) == \A i \in 1..Len(text) : Ch(text, i) \in SpaceSet

\* the text execute is left with after the description patterns, the
\* prefixes and _clean_title
CleanedText(input) == CleanTitle(RemovePrefixes(ExtractDescription(Strip(input)).text))

\* C11: has_title is false exactly when the title is the empty string; an
\* empty or whitespace-only input, and an input whose text is empty after
\* description extraction, prefix stripping and clean-up, gives has_title
\* false and title ""; every other input gives has_title true and a
\* non-empty title that neither starts nor ends with whitespace.
C11_TitleEmptyIffNoTitle ==
    ppc = "done" =>
        /\ parsed_task.has_title = FALSE <=> parsed_task.title = ""
        /\ IF Blank(parser_input) \/ CleanedText(parser_input) = ""
           THEN parsed_task.has_title = FALSE /\ parsed_task.title = ""
           ELSE /\ parsed_task.has_title = TRUE
                /\ Len(parsed_task.title) > 0
                /\ Ch(parsed_task.title, 1) \notin SpaceSet
                /\ Ch(parsed_task.title, Len(parsed_task.title)) \notin SpaceSet

\* a text that is not blank and that the clean-up empties has been parsed
C11_Witness ==
    /\ ppc = "done"
    /\ ~Blank(parser_input)
    /\ CleanedText(parser_input) = ""
    /\ parsed_task.has_title = FALSE

\* texts of the form 'add <title> with description <text>' in which the
\* verb is not followed by task, todo or item
VerbTitles == {"buy milk", "call mom"}
VerbDescriptions == {"get 2% milk", "at noon"}
AddWithDescription(title, text) == "add " \o title \o " with description " \o text

\* C12: for 'add <title> with description <text>' the title is returned
\* without the leading verb 'add' (up to the capital of its first letter)
\* and the description is <text>.
C12_VerbIsNotPartOfTitle ==
    ppc = "done" =>
        \A title \in VerbTitles, text \in VerbDescriptions :
            parser_input = AddWithDescription(title, text) =>
                /\ parsed_task.title \in {title, CapitalizeFirst(title)}
                /\ parsed_task.description = Some(text)


(***************************************************************************)
(* Claims about the confirmation generator (SpecComposer)                  *)
(***************************************************************************)
UpdatedReturned == cpc = "done" /\ confirm_call.action = "updated"

\* C13: for action 'updated' with an empty or absent list of changes the
\* message contains 'No changes', whatever the task argument is, an absent
\* task included.
C13_NoChangesAlwaysSaysSo ==
    UpdatedReturned /\ OrEmpty(confirm_call.changes) = <<>> =>
        Contains(confirmation, "No changes")

\* the changes in input order: ", " before every item but the first and
\* the last, " and " before the last of two, ", and " before the last of
\* three or more
RECURSIVE RenderedUpTo(_, _)
RenderedUpTo(changes, k) ==
    IF k = 1 THEN changes[1]
    ELSE RenderedUpTo(changes, k - 1) \o
         (IF k < Len(changes) THEN ", " ELSE IF k = 2 THEN " and " ELSE ", and ") \o
         changes[k]

\* the number of places of text where item stands
Occurrences(item, text) ==
    Cardinality({i \in 1..(Len(text) - Len(item) + 1) :
                    SubSeq(text, i, i + Len(item) - 1) = item})

\* the message without the quoted title it ends with
BeforeTitle(message, title) ==
    SubSeq(message, 1, Len(message) - Len(Quoted(title) \o "."))

ErrorKind ==
    IF error_call.error # None THEN error_call.error[1].type
    ELSE IF error_call.error_type # None THEN error_call.error_type[1]
    ELSE ""

MappedKinds == {"TaskNotFoundError", "UnauthorizedError", "ValidationError",
                "DatabaseError", "ValueError"}

\* C15: a NotFound error, passed as the TaskNotFoundError exception the
\* task tools raise or as the name of the error type, gets the message
\* "I couldn't find that task." with the suggestion "Would you like me to
\* show you your current tasks?"; an error kind that is not in the table
\* gets "Something went wrong." with "Please try again or rephrase your
\* request." (calls without a context).
C15_NotFoundHasOneMessage ==
    epc = "done" /\ error_call.context = None =>
        /\ ErrorKind = "TaskNotFoundError" =>
              /\ handled_error.message = "I couldn't find that task."
              /\ handled_error.suggestion = "Would you like me to show you your current tasks?"
        /\ ErrorKind \notin MappedKinds =>
              /\ handled_error.message = "Something went wrong."
              /\ handled_error.suggestion = "Please try again or rephrase your request."


(***************************************************************************)
(* Claims about the context builder (SpecContext)                          *)
(***************************************************************************)
SuppliedHistory == context_call.conversation_history

\* min(n, 20) for a history of n entries
KeptEntries == IF Len(SuppliedHistory) < 20 THEN Len(SuppliedHistory) ELSE 20

PromptEntries == IF context_call.include_system_prompt THEN 1 ELSE 0

\* C16: the message list is the system prompt (only when requested), then
\* the last min(n, 20) entries of the history of n entries, in their order
\* and with role and content unchanged, then the current user message; it
\* has (1 if system prompt) + min(n, 20) + 1 entries.
C16_MessagesArePromptHistoryMessage ==
    bpc = "done" =>
        /\ Len(built.messages) = PromptEntries + KeptEntries + 1
        /\ context_call.include_system_prompt =>
              built.messages[1] = [role |-> "system", content |-> SYSTEM_PROMPT]
        /\ \A j \in 1..KeptEntries :
              LET entry == SuppliedHistory[Len(SuppliedHistory) - KeptEntries + j]
              IN  built.messages[PromptEntries + j] =
                      [role |-> entry.role, content |-> entry.content]
        /\ built.messages[Len(built.messages)] =
              [role |-> "user", content |-> context_call.user_message]

\* a history of more than 20 entries has been built into a context with
\* the system prompt
C16_Witness ==
    /\ bpc = "done"
    /\ Len(SuppliedHistory) > 20
    /\ context_call.include_system_prompt
    /\ Len(built.messages) = 22

\* the numeric tokens of a text: <<p, n>> when 'task' or 'id' stands at
\* position p, in any case, followed by any run of ':', '#' and whitespace
\* and then by the digits of n
TokenAfter(text, after) ==
    LET digits == after + ClassRun(text, after, ":s#")
    IN  IF ClassRun(text, digits, "d") = 0 THEN None
        ELSE Some(ParseInt(SubSeq(text, digits, digits + ClassRun(text, digits, "d") - 1)))

TokensOf(text) ==
    {<<p, TokenAfter(text, p + 4)[1]>> : p \in
        {p \in 1..Len(text) : /\ p + 3 <= Len(text)
                              /\ Lower(SubSeq(text, p, p + 3)) = "task"
                              /\ TokenAfter(text, p + 4) # None}}
    \cup
    {<<p, TokenAfter(text, p + 2)[1]>> : p \in
        {p \in 1..Len(text) : /\ p + 1 <= Len(text)
                              /\ Lower(SubSeq(text, p, p + 1)) = "id"
                              /\ TokenAfter(text, p + 2) # None}}

\* the assistant-authored entries among the last 10 of the history
RecentAssistantEntries ==
    {k \in 1..Len(SuppliedHistory) :
        /\ k > Len(SuppliedHistory) - 10
        /\ SuppliedHistory[k].role = "assistant"}

\* where the scan from the most recent entry to the oldest meets an id:
\* the entries passed, then the position in the entry
SightingsOf(id) ==
    UNION {{(Len(SuppliedHistory) - k) * 1000 + t[1] :
                t \in {u \in TokensOf(SuppliedHistory[k].content) : u[2] = id}} :
           k \in RecentAssistantEntries}

FirstSighting(id) == CHOOSE r \in SightingsOf(id) : \A q \in SightingsOf(id) : r <= q

RecentlyMentioned ==
    UNION {{t[2] : t \in TokensOf(SuppliedHistory[k].content)} : k \in RecentAssistantEntries}

\* C17: recent_task_ids holds at most 5 ids, all distinct, each the number
\* after 'task' or 'id' in an assistant-authored entry among the last 10
\* entries of the history (never one of a user entry or of an older entry
\* only), in the order in which a scan from the most recent entry to the
\* oldest first meets them; an id left out was met after the five kept.
C17_RecentIdsAreFirstFiveMet ==
    bpc = "done" =>
        /\ Len(built.recent_task_ids) <= 5
        /\ \A a, b \in 1..Len(built.recent_task_ids) :
              a # b => built.recent_task_ids[a] # built.recent_task_ids[b]
        /\ \A a \in 1..Len(built.recent_task_ids) :
              built.recent_task_ids[a] \in RecentlyMentioned
        /\ \A a, b \in 1..Len(built.recent_task_ids) :
              a < b => FirstSighting(built.recent_task_ids[a]) <
                       FirstSighting(built.recent_task_ids[b])
        /\ \A id \in RecentlyMentioned :
              \/ \E a \in 1..Len(built.recent_task_ids) : built.recent_task_ids[a] = id
              \/ /\ Len(built.recent_task_ids) = 5
                 /\ \A a \in 1..5 :
                       FirstSighting(built.recent_task_ids[a]) < FirstSighting(id)

\* five ids have been taken from a history in which a user entry and an
\* entry older than the last 10 mention other ids
C17_Witness ==
    /\ bpc = "done"
    /\ Len(built.recent_task_ids) = 5
    /\ Len(SuppliedHistory) > 10
    /\ \E k \in 1..Len(SuppliedHistory) :
          /\ k \notin RecentAssistantEntries
          /\ \E t \in TokensOf(SuppliedHistory[k].content) : t[2] \notin RecentlyMentioned


(***************************************************************************)
(* Claims about the REST routes and the task tools (SpecTasks)             *)
(***************************************************************************)
\* the table holds a task of this id that belongs to another user
OwnedByOther(rows, uid, task_id) ==
    \E i \in 1..Len(rows) : rows[i].id = task_id /\ rows[i].user_id # uid

\* a request has just been served
RequestServed == served' = served + 1

\* C18: a get, update, delete or toggle-complete of a task of another user
\* returns 404 and leaves the table as it was, and a task list holds no
\* task of another user, whatever requests either user made before (the
\* update carries a body that TaskUpdate accepts).
C18_OtherUsersTasksAreNotFound ==
    [][RequestServed =>
        /\ ( /\ api_call'.op \in {"get", "update", "delete", "toggle"}
             /\ OwnedByOther(db.tasks, api_call'.user_id, api_call'.task_id)
             /\ api_reply'.status # 422 )
           => api_reply'.status = 404 /\ db' = db
        /\ api_call'.op = "list" =>
              \A k \in 1..Len(api_reply'.body) :
                  /\ api_reply'.body[k].user_id = api_call'.user_id
                  /\ ~OwnedByOther(db.tasks, api_call'.user_id, api_reply'.body[k].id)
      ]_vars

\* a user has asked to delete a task that another user created through
\* the route a request earlier, and got 404
C18_Witness ==
    /\ served = 2
    /\ api_call.op = "delete"
    /\ api_reply.status = 404
    /\ OwnedByOther(db.tasks, api_call.user_id, api_call.task_id)
    /\ api_call.task_id = db.next_id - 1

\* a task list has just been returned, by the route or by the tool
ListReturned ==
    \/ api_call.op = "list"
    \/ api_call.op = "list_tasks" /\ ~api_reply.raised

Listed == IF api_call.op = "list" THEN api_reply.body ELSE api_reply.out.tasks

ListedFilter == IF api_call.op = "list" THEN "all" ELSE api_call.args[1]

\* the rows of the user that asked which the filter lets through
MatchingRows ==
    {i \in 1..Len(db.tasks) :
        /\ db.tasks[i].user_id = api_call.user_id
        /\ ListedFilter = "pending" => ~db.tasks[i].completed
        /\ ListedFilter = "completed" => db.tasks[i].completed}

\* C19: a task list (REST route, and list_tasks for every status filter)
\* holds exactly the tasks of the user that match the filter, newest
\* creation time first, so that the task created last stands at position
\* 0 of the list (ids are handed out in the order of creation).
C19_ListIsNewestFirst ==
    ListReturned =>
        /\ Len(Listed) = Cardinality(MatchingRows)
        /\ \A i \in MatchingRows : \E k \in 1..Len(Listed) :
              /\ Listed[k].id = db.tasks[i].id
              /\ Listed[k].title = db.tasks[i].title
              /\ Listed[k].completed = db.tasks[i].completed
              /\ Listed[k].created_at = db.tasks[i].created_at
        /\ \A k \in 1..(Len(Listed) - 1) : Listed[k].created_at >= Listed[k + 1].created_at
        /\ \A i \in MatchingRows : Listed[1].id >= db.tasks[i].id

\* the tool has listed two or more tasks, the first of them created by a
\* request of this run
C19_Witness ==
    /\ api_call.op = "list_tasks"
    /\ ~api_reply.raised
    /\ Len(Listed) >= 2
    /\ Listed[1].id = db.next_id - 1
    /\ \A i \in 1..Len(ApiSeededStore.tasks) : ApiSeededStore.tasks[i].id # Listed[1].id

\* C20: complete_task by the owner of a pending task sets completed and
\* reports 'completed'; on a task that is completed it reports
\* 'already_completed' and changes nothing: completed stays true and the
\* title, the description and updated_at are what they were.
C20_CompleteTaskIsIdempotent ==
    [][RequestServed /\ api_call'.op = "complete_task" /\ ~api_reply'.raised =>
        LET i == RowOf(db.tasks, api_call'.task_id)
        IN  /\ i # 0
            /\ Len(db'.tasks) = Len(db.tasks)
            /\ \A j \in 1..Len(db.tasks) : j # i => db'.tasks[j] = db.tasks[j]
            /\ db'.tasks[i].completed = TRUE
            /\ db'.tasks[i].title = db.tasks[i].title
            /\ db'.tasks[i].description = db.tasks[i].description
            /\ IF db.tasks[i].completed
               THEN /\ api_reply'.out.status = "already_completed"
                    /\ db'.tasks[i].updated_at = db.tasks[i].updated_at
                    /\ db' = db
               ELSE api_reply'.out.status = "completed"
      ]_vars

\* complete_task has been called a second time on the task it completed
\* in the request before
C20_Witness ==
    /\ served = 2
    /\ api_call.op = "complete_task"
    /\ ~api_reply.raised
    /\ api_reply.out.status = "already_completed"
    /\ db.tasks[RowOf(db.tasks, api_call.task_id)].updated_at = db.now - 1

(***************************************************************************)
(* Properties of the tools on a task id they cannot serve (SpecTasks)      *)
(***************************************************************************)
\* the step is a call of complete_task, delete_task or update_task whose
\* session reached the database
LookupToolCalled ==
    /\ RequestServed
    /\ api_call'.op \in {"complete_task", "delete_task", "update_task"}
    /\ ~(api_reply'.raised /\ api_reply'.error.type = "OperationalError")

\* the step's call raised an exception of this type and no row of any user
\* was modified or removed
RaisedUntouched(type) ==
    /\ api_reply'.raised
    /\ api_reply'.error.type = type
    /\ db'.tasks = db.tasks

\* C21: complete_task, delete_task and update_task raise TaskNotFoundError
\* when no task has the id and UnauthorizedError when the task belongs to
\* another user, and in both cases the tasks table is as it was.
C21_ToolsRaiseNotFoundOrUnauthorized ==
    [][LookupToolCalled =>
          /\ RowOf(db.tasks, api_call'.task_id) = 0 => RaisedUntouched("TaskNotFoundError")
          /\ OwnedByOther(db.tasks, api_call'.user_id, api_call'.task_id)
                 => RaisedUntouched("UnauthorizedError")]_vars

\* delete_task has just raised UnauthorizedError on the task that the other
\* user added a call earlier, and the task is still in the table
C21_Witness ==
    /\ served = 2
    /\ api_call.op = "delete_task"
    /\ api_reply.raised
    /\ api_reply.error.type = "UnauthorizedError"
    /\ api_call.task_id = db.next_id - 1
    /\ OwnedByOther(db.tasks, api_call.user_id, api_call.task_id)

(***************************************************************************)
(* The context of an error (SpecError)                                     *)
(***************************************************************************)
\* the handler was called with a context that is not empty
ContextPassed == error_call.context # None /\ error_call.context # Some("")

\* C22: when a context is passed to the error handler, the message it
\* returns is the context, ": " and the message the table maps the error
\* kind to, whether the error is an exception or the name of an error type.
C22_ContextPrefixesMappedMessage ==
    epc = "done" /\ ContextPassed =>
        handled_error.message =
            error_call.context[1] \o ": " \o ERROR_MESSAGES(ErrorKind).message

(***************************************************************************)
(* The order of the resolver's strategies (SpecResolver)                   *)
(***************************************************************************)
\* the match of an ID pattern names the id of a candidate
MatchNamesCandidate(match, ts) ==
    match.found /\ \E j \in 1..Len(ts) : ts[j].id = ParseInt(match.group)

\* the number an ID pattern finds in the text is the id of a candidate
IdPatternHits(text, ts, p) == MatchNamesCandidate(Search(ID_PATTERNS[p], text), ts)

\* the text holds a numeric reference and it is no candidate's id
NumberMatchesNoCandidate(text, ts) ==
    /\ \E p \in 1..Len(ID_PATTERNS) : Search(ID_PATTERNS[p], text).found
    /\ \A p \in 1..Len(ID_PATTERNS) : ~IdPatternHits(text, ts, p)

\* a candidate's title is similar enough to the text
TitleIsClose(text, ts) ==
    \E j \in 1..Len(ts) : FracLe(Frac(1, 2), TitleScore(text, ts[j]))

\* the first strategy, in the order exact_id, ordinal, title_match, that has
\* a candidate to give for the text, "none" when none has
FirstStrategyThatYields(text, ts) ==
    IF \E p \in 1..Len(ID_PATTERNS) : IdPatternHits(text, ts, p) THEN "exact_id"
    ELSE IF \E o \in 1..Len(ORDINALS) : OrdinalInRange(text, ts, o) THEN "ordinal"
    ELSE IF TitleIsClose(text, ts) THEN "title_match"
    ELSE "none"

\* the result is of this method, names a candidate unless the method is
\* "none", and an ordinal result is the candidate an ordinal keyword of the
\* text indexes
ResolvedBy(method, text, ts) ==
    /\ resolved.resolution_method = method
    /\ method = "none" <=> resolved = ResolvedNone
    /\ method = "ordinal" =>
          \E o \in 1..Len(ORDINALS) :
              /\ OrdinalInRange(text, ts, o)
              /\ resolved.task_id = Some(OrdinalTarget(ts, o).id)

\* C23: the result is that of the first strategy, in the order exact_id,
\* ordinal, title_match, that yields a candidate.  A number of the text
\* that is no candidate's id does not end the resolution: an ordinal keyword
\* within the list still gives an ordinal result, else a title that is
\* similar enough gives a title_match result, and the result is "none" with
\* confidence 0.0 only when all three strategies fail.
C23_FirstStrategyThatYieldsWins ==
    (rpc = "done" /\ user_input # "" /\ tasks # <<>>) =>
        ResolvedBy(FirstStrategyThatYields(ResolverText, tasks), ResolverText, tasks)

\* the text names a number that is no candidate's id and holds no ordinal
\* keyword, and the resolver has answered by title_match
C23_Witness ==
    /\ rpc = "done"
    /\ NumberMatchesNoCandidate(ResolverText, tasks)
    /\ resolved.resolution_method = "title_match"
    /\ resolved.task_id # None

(***************************************************************************)
(* An ordinal keyword past the end of the list (SpecResolver)              *)
(***************************************************************************)
\* the ordinal keywords the text holds
OrdinalsFound(text) == {o \in 1..Len(ORDINALS) : Contains(text, ORDINALS[o][1])}

\* the text holds one ordinal keyword, and it indexes past the end of the list
OneOrdinalPastTheEnd(text, ts) ==
    /\ Cardinality(OrdinalsFound(text)) = 1
    /\ \A o \in OrdinalsFound(text) : ~OrdinalInRange(text, ts, o)

\* C24: when the ordinal keyword of the text indexes past the end of the
\* candidate list, the ordinal strategy yields no match and the resolution
\* goes on to title matching: the result is by title_match or is "none",
\* never by ordinal.  Stated for the texts that name no task by number and
\* hold one ordinal keyword only.
C24_OrdinalPastTheEndGoesToTitle ==
    (/\ rpc = "done"
     /\ tasks # <<>>
     /\ NoNumericReference(ResolverText)
     /\ OneOrdinalPastTheEnd(ResolverText, tasks))
    => /\ resolved.resolution_method \in {"title_match", "none"}
       /\ resolved = TryTitleMatch(ResolverText, tasks)

(***************************************************************************)
(* The description patterns of the task parser (SpecParser)                *)
(***************************************************************************)
\* the description patterns that match the text
PatternsMatching(text) ==
    {k \in 1..Len(DESCRIPTION_PATTERNS) : Search(DESCRIPTION_PATTERNS[k], text).found}

\* what the pattern of the highest priority that matches finds in the text
FirstPatternMatch(text) ==
    IF PatternsMatching(text) = {} THEN NoMatch
    ELSE Search(DESCRIPTION_PATTERNS[CHOOSE k \in PatternsMatching(text) :
                                         \A j \in PatternsMatching(text) : k <= j], text)

\* the description is the trimmed text the match captured, None without a
\* match, and the title is made of the text in front of the match only
ExtractedAround(text, match) ==
    IF match.found
    THEN /\ parsed_task.description = Some(Strip(match.group))
         /\ parsed_task.title =
                CleanTitle(RemovePrefixes(Strip(SubSeq(text, 1, match.start - 1))))
    ELSE /\ parsed_task.description = None
         /\ parsed_task.title = CleanTitle(RemovePrefixes(text))

\* the examples of the dash and of the parentheses
DescriptionExamples ==
    /\ parser_input = "buy milk - get 2% milk"
           => parsed_task = ParsedTask("Buy milk", Some("get 2% milk"), TRUE)
    /\ parser_input = "buy milk (get 2% milk)"
           => parsed_task = ParsedTask("Buy milk", Some("get 2% milk"), TRUE)

\* C25 as the specification states it: at most one description pattern is
\* applied, the first that matches in the order keyword, " - ", parentheses,
\* before any prefix is stripped; the description is the trimmed text it
\* captured, the title comes from the text in front of the match, and the
\* description is null when no pattern matches.
C25_FirstPatternGivesDescription ==
    (ppc = "done" /\ ~Blank(parser_input)) =>
        /\ ExtractedAround(Strip(parser_input), FirstPatternMatch(Strip(parser_input)))
        /\ DescriptionExamples

\* C25, amended: the same for every text that leaves a title; a text that
\* leaves no title in front of the match gives has_title false, title ""
\* and no description, whatever the pattern captured.
C25_FirstPatternGivesDescriptionOfTitled ==
    (ppc = "done" /\ ~Blank(parser_input)) =>
        /\ IF parsed_task.has_title
           THEN ExtractedAround(Strip(parser_input), FirstPatternMatch(Strip(parser_input)))
           ELSE parsed_task = ParsedTask("", None, FALSE)
        /\ DescriptionExamples

\* a text that the keyword pattern and the " - " pattern both match has been
\* parsed: the description is what the keyword pattern captured
C25_Witness ==
    /\ ppc = "done"
    /\ parsed_task.has_title
    /\ {1, 2} \subseteq PatternsMatching(Strip(parser_input))
    /\ parsed_task.description =
           Some(Strip(Search(DESCRIPTION_PATTERNS[1], Strip(parser_input)).group))
    /\ parsed_task.description #
           Some(Strip(Search(DESCRIPTION_PATTERNS[2], Strip(parser_input)).group))

(***************************************************************************)
(* The task id a handler passes to the tools (Spec)                        *)
(***************************************************************************)
\* the task id the agent resolves for the message and passes to
\* complete_task, update_task or delete_task; None when it calls none of them
IdPassedBy(agent, s, uid, msg) ==
    IF agent = "completion_agent" THEN CompletionResolveTaskId(s, TRUE, uid, msg).task_id
    ELSE IF /\ agent = "crud_agent"
            /\ ~AnyIn(CREATE_INTENTS, Strip(Lower(msg)))
            /\ AnyIn(UPDATE_INTENTS \o DELETE_INTENTS, Strip(Lower(msg)))
    THEN CrudResolveTaskId(s, TRUE, uid, msg).task_id
    ELSE None

\* the id is that of a task list_tasks returns for the user
IsListedFor(task_id, rows, uid) ==
    \E i \in 1..Len(rows) : rows[i].id = task_id /\ rows[i].user_id = uid

\* the loop of _try_rule_based_routing has just executed an agent
AgentExecuted == pc = "routing" /\ Len(executed') = Len(executed) + 1

\* C26: the task id that the completion, update or delete handler passes to
\* complete_task, update_task or delete_task is the id of one of the tasks
\* listed for the current user; a number of the message that is the id of
\* none of them is never passed.
C26_HandlersPassListedIds ==
    [][AgentExecuted =>
          \A passed \in {IdPassedBy(executed'[Len(executed')].agent, store, user_id,
                                    user_message)} :
              ~NoTaskId(passed) => IsListedFor(passed[1], store.tasks, user_id)]_vars

(***************************************************************************)
(* The message list of the chat endpoint (SpecChat)                        *)
(***************************************************************************)
\* the message of the request being served, as an entry of the list
CurrentMessage == [role |-> "user", content |-> user_message]

\* the request has handed a message list to the chat completions API
HandedToLLM == pc = "done" /\ fallback /\ llm_messages # <<>>

\* the rows the conversation held before the request: all but the row of
\* the message just saved
RowsBefore == SubSeq(chat_messages, 1, Len(chat_messages) - 1)

\* the user had not sent the same text earlier in the conversation
NotSaidBefore ==
    \A k \in 1..Len(RowsBefore) : RowsBefore[k] # MessageContext("user", user_message)

\* C27: the message list the chat endpoint hands to the LLM holds the
\* current user message once, as its last entry (counted for a text the
\* user had not sent earlier in the conversation).
C27_CurrentMessageHandedOnce ==
    (HandedToLLM /\ NotSaidBefore) =>
        /\ llm_messages[Len(llm_messages)] = CurrentMessage
        /\ Cardinality({k \in 1..Len(llm_messages) : llm_messages[k] = CurrentMessage}) = 1

\* the message asks to complete, by its id, the task at position k of the
\* store, which is a completed task of the user
AsksToCompleteAgain(k) ==
    /\ store.tasks[k].user_id = user_id
    /\ store.tasks[k].completed
    /\ user_message = "mark task " \o ToString(store.tasks[k].id) \o " as done"

\* the first turn of rule-based routing with the database answering
FirstRoutingTurn == agent_idx = 1 /\ TryRuleBasedRouting(TRUE)

\* C28: a message that asks to complete, by its id, a task of the user that
\* is already completed is answered by the completion handler with the
\* already_completed confirmation, and the task store is unchanged.
C28_CompletedTaskAnsweredAlreadyCompleted ==
    [][\A k \in 1..Len(store.tasks) :
          (AsksToCompleteAgain(k) /\ FirstRoutingTurn) =>
              /\ pc' = "done"
              /\ result'.agent_used = Some("completion_agent")
              /\ result'.response =
                     Quoted(store.tasks[k].title) \o " was already marked as complete."
              /\ store' = store]_vars

\* the pending-class pattern \bnot\s+(?:done|completed?|finished)\b
NOT_DONE_KEYWORD == PENDING_KEYWORDS[8]

\* the query negates completion and holds no all-class keyword
NegatesCompletion ==
    /\ Search(NOT_DONE_KEYWORD, FilterText).found
    /\ ~AnySearch(ALL_KEYWORDS, FilterText)

\* C29: a query with one of the phrases "not done", "not completed" or
\* "not finished" and without an all-class keyword is classified as pending,
\* not as completed.
C29_NegatedCompletionIsPending ==
    (fpc = "done" /\ NegatesCompletion) => filter_params.status = "pending"

\* a method of TaskStorage has been called in this step
StorageCalled == console_calls' = console_calls + 1

\* the call of this step names a task id that no task of the store has
UnknownIdCalled ==
    /\ StorageCalled
    /\ console_call'.op \in {"update_task", "delete_task", "toggle_complete"}
    /\ GetTaskById(console_tasks, console_call'.task_id) = 0

\* C30: a call of TaskStorage that raises leaves the store unchanged:
\* update_task, delete_task and toggle_complete on an unknown id raise
\* TaskNotFoundError, and after a call that raised TaskNotFoundError or
\* ValidationError every task is as it was before the call.
C30_RaisingLeavesStoreUnchanged ==
    [][/\ UnknownIdCalled =>
              /\ console_raised' # None
              /\ console_raised'[1].type = "TaskNotFoundError"
       /\ (StorageCalled /\ console_raised' # None) => console_tasks' = console_tasks]_vars

====
